---- MODULE Spec2Model ----
(***************************************************************************)
(* Model of the nestjs-api-connector execution orchestrator               *)
(* (CorrectorEngine.execute / executeSingleCall), the transformation      *)
(* engine it calls (TransformerService) and the bearer / OAuth2           *)
(* authentication providers with their token caches.                      *)
(***************************************************************************)
EXTENDS Integers, Sequences, FiniteSets, TLC

(***************************************************************************)
(* Bounds of the model                                                     *)
(***************************************************************************)
MaxRetry == 2
MaxSteps == 2
MaxInvocations == 3
MaxClock == 7200000
LoginLatencyMs == 250

(***************************************************************************)
(* Program constants                                                       *)
(***************************************************************************)
DefaultExpiresIn == 3600
SafetyMarginMs == 60000
MsPerSecond == 1000

(***************************************************************************)
(* JSON values.  Every value is a tagged record so that values of          *)
(* different JavaScript types can be compared.                             *)
(***************************************************************************)
Undef == [t |-> "undef"]
Num(n) == [t |-> "num", n |-> n]
Str(s) == [t |-> "str", s |-> s]
Obj(f) == [t |-> "obj", f |-> f]
EmptyFn == [k \in {} |-> Undef]
EmptyObj == Obj(EmptyFn)
One(k, v) == Obj([x \in {k} |-> v])
\* a JavaScript array: a sequence of values
Arr(a) == [t |-> "arr", a |-> a]

\* obj instanceof Object
IsObject(v) == v.t = "obj"
\* JavaScript truthiness (!!v)
Truthy(v) ==
    CASE v.t = "undef" -> FALSE
      [] v.t = "null" -> FALSE
      [] v.t = "bool" -> v.b
      [] v.t = "num" -> v.n # 0
      [] v.t = "str" -> v.s # ""
      [] OTHER -> TRUE
\* Object.keys(v).length === 0
NoKeys(v) ==
    CASE v.t = "obj" -> DOMAIN v.f = {}
      [] v.t = "str" -> v.s = ""
      [] OTHER -> TRUE
Keys(v) == IF IsObject(v) THEN DOMAIN v.f ELSE {}
Field(v, k) == IF IsObject(v) /\ k \in DOMAIN v.f THEN v.f[k] ELSE Undef
\* { ...a, ...b } for objects (spreading a non-object adds no keys)
Spread(a, b) ==
    Obj([k \in Keys(a) \cup Keys(b) |-> IF k \in Keys(b) THEN Field(b, k) ELSE Field(a, k)])
\* obj[k] = v on an object
WithField(o, k, v) ==
    Obj([x \in Keys(o) \cup {k} |-> IF x = k THEN v ELSE Field(o, x)])

(***************************************************************************)
(* Path expressions: "$.a.b" is the key sequence <<"a","b">>.              *)
(***************************************************************************)
RECURSIVE getValue(_, _)
\* jsonpath.value(obj, path) for an object obj
getValue(obj, path) ==
    IF path = << >> THEN obj
    ELSE IF ~IsObject(obj) THEN Undef
    ELSE getValue(Field(obj, Head(path)), Tail(path))

\* jsonpath.value asserts that obj is an object and throws otherwise
JsonPathThrows(obj) == ~IsObject(obj)

RECURSIVE setThrows(_, _)
\* setValue throws a TypeError when the walk reaches a truthy primitive
setThrows(obj, path) ==
    IF ~IsObject(obj) THEN TRUE
    ELSE IF Len(path) <= 1 THEN FALSE
    ELSE LET cur == Field(obj, Head(path))
         IN IF ~Truthy(cur) THEN FALSE ELSE setThrows(cur, Tail(path))

RECURSIVE setValue(_, _, _)
\* setValue(obj, path, value): creates intermediate objects on demand
setValue(obj, path, value) ==
    IF Len(path) = 0 THEN obj
    ELSE IF Len(path) = 1 THEN WithField(obj, Head(path), value)
    ELSE LET cur == Field(obj, Head(path))
             next == IF ~Truthy(cur) THEN EmptyObj ELSE cur
         IN WithField(obj, Head(path), setValue(next, Tail(path), value))

(***************************************************************************)
(* Conversions                                                             *)
(***************************************************************************)
\* decimal numeral of a small natural number
NumStr(n) ==
    CASE n = 0 -> "0" [] n = 1 -> "1" [] n = 2 -> "2" [] n = 3 -> "3" [] n = 4 -> "4"
      [] n = 5 -> "5" [] n = 6 -> "6" [] n = 7 -> "7" [] n = 8 -> "8" [] n = 9 -> "9"
      [] OTHER -> "N"
\* String(value) / template-string interpolation
ToStr(v) ==
    CASE v.t = "undef" -> "undefined"
      [] v.t = "null" -> "null"
      [] v.t = "bool" -> IF v.b THEN "true" ELSE "false"
      [] v.t = "num" -> NumStr(v.n)
      [] v.t = "str" -> v.s
      [] v.t = "path" -> "$"
      [] OTHER -> "[object Object]"

(***************************************************************************)
(* Transformation engine                                                   *)
(***************************************************************************)
NoSpec == [type |-> "NONE"]
\* the marker of a call that ended by throwing
Thrown == [t |-> "thrown"]
Rule(src, tgt, def, req) == [source |-> src, target |-> tgt, default |-> def, required |-> req]
ObjectSpec(rules) == [type |-> "OBJECT", mappings |-> rules, defaults |-> << >>]
\* an OBJECT spec with spec-level defaults: a list of <<path, value>> entries
ObjectSpecWithDefaults(rules, defaults) ==
    [type |-> "OBJECT", mappings |-> rules, defaults |-> defaults]

\* variant: a required rule without a value discards what was written so far
applyRule_RequiredAborts(result, source, mapItem) ==
    IF JsonPathThrows(source) THEN result
    ELSE LET v0 == getValue(source, mapItem.source)
             v1 == IF v0 = Undef THEN mapItem.default ELSE v0
         IN IF mapItem.required /\ v1 = Undef THEN EmptyObj
            ELSE IF v1 = Undef THEN result
            ELSE IF setThrows(result, mapItem.target) THEN result
            ELSE setValue(result, mapItem.target, v1)

\* evaluateCondition. A condition is held split as the code splits it:
\* `path == literal` is [path, equals |-> TRUE, literal] with the literal as
\* it is after trim and the removal of one quote at either end; any other
\* condition is [path, equals |-> FALSE] and stands for the path itself.
evaluateCondition(data, condition) ==
    IF condition.equals
    THEN condition.path # << >>
            /\ ToStr(getValue(data, condition.path)) = condition.literal
    ELSE Truthy(getValue(data, condition.path))

\* the value one iteration of the rule loop has when it reaches setValue;
\* Undef when it does not get there (continue, a throw that the catch
\* swallows, or a value that is still undefined)
ruleValue(source, mapItem) ==
    LET conditional == "condition" \in DOMAIN mapItem
        passed == ~conditional \/ evaluateCondition(source, mapItem.condition)
        fixed == IF ~conditional THEN Undef
                 ELSE IF passed
                 THEN IF "valueIfTrue" \in DOMAIN mapItem THEN mapItem.valueIfTrue ELSE Undef
                 ELSE IF "valueIfFalse" \in DOMAIN mapItem THEN mapItem.valueIfFalse
                 ELSE Undef
        reads == passed /\ fixed = Undef
        v0 == IF reads THEN getValue(source, mapItem.source) ELSE fixed
    IN IF conditional /\ ~passed /\ fixed = Undef THEN Undef
       ELSE IF reads /\ JsonPathThrows(source) THEN Undef
       ELSE IF v0 = Undef THEN mapItem.default ELSE v0

\* one iteration of the rule loop of transformObject (its try/catch included)
applyRule(result, source, mapItem) ==
    LET value == ruleValue(source, mapItem)
    IN IF value = Undef THEN result
       ELSE IF setThrows(result, mapItem.target) THEN result
       ELSE setValue(result, mapItem.target, value)

RECURSIVE applyRules_FirstWins(_, _, _)
\* variant: a rule does not write a target that already holds a value
applyRules_FirstWins(result, source, rules) ==
    IF rules = << >> THEN result
    ELSE applyRules_FirstWins(
             IF getValue(result, Head(rules).target) # Undef THEN result
             ELSE applyRule(result, source, Head(rules)),
             source, Tail(rules))

RECURSIVE applyRules(_, _, _)
\* the rule loop, in declaration order
applyRules(result, source, rules) ==
    IF rules = << >> THEN result
    ELSE applyRules(applyRule(result, source, Head(rules)), source, Tail(rules))

RECURSIVE applyDefaults(_, _)
\* the loop over Object.entries(mapping.defaults): setValue is not guarded here
applyDefaults(result, defaults) ==
    IF defaults = << >> THEN result
    ELSE LET path == Head(defaults)[1]
             value == Head(defaults)[2]
         IN IF getValue(result, path) # Undef THEN applyDefaults(result, Tail(defaults))
            ELSE IF setThrows(result, path) THEN Thrown
            ELSE applyDefaults(setValue(result, path, value), Tail(defaults))

RECURSIVE sourceAfter(_, _, _, _)
\* The source object after the rule loop of transformObject. jsonpath.value
\* returns objects by reference and setValue stores them as they are, so a
\* result path can hold the very object found at a source path (aliases: a
\* set of <<result path, source path>>); a later setValue whose path runs
\* through such an object writes into the source. (Objects that enter the
\* result through a default, and elements of an ARRAY root, are not followed.)
sourceAfter(source, result, aliases, rules) ==
    IF rules = << >> \/ JsonPathThrows(source) THEN source
    ELSE LET mapItem == Head(rules)
             target == mapItem.target
             v0 == getValue(source, mapItem.source)
             v1 == ruleValue(source, mapItem)
             written == v1 # Undef /\ ~setThrows(result, target)
             through == {a \in aliases :
                            /\ Len(a[1]) < Len(target)
                            /\ SubSeq(target, 1, Len(a[1])) = a[1]}
             shared == CHOOSE a \in through : \A b \in through : Len(b[1]) <= Len(a[1])
             source1 ==
                 IF written /\ through # {}
                 THEN setValue(source,
                               shared[2] \o SubSeq(target, Len(shared[1]) + 1, Len(target)),
                               v1)
                 ELSE source
             aliases1 ==
                 IF written /\ v1 = v0 /\ IsObject(v0)
                 THEN aliases \cup {<<target, mapItem.source>>}
                 ELSE aliases
         IN sourceAfter(source1, applyRule(result, source, mapItem), aliases1, Tail(rules))

transformObject(source, mapping) ==
    applyDefaults(applyRules(EmptyObj, source, mapping.mappings), mapping.defaults)

\* variant: a root that is not an array is treated as an array of one element
transformArray_WrapsSingle(source, mapping) ==
    LET rootValue == getValue(source, mapping.root)
        rootArray == IF rootValue.t = "arr" THEN rootValue ELSE Arr(<<rootValue>>)
        list == [i \in DOMAIN rootArray.a |-> transformObject(rootArray.a[i], mapping)]
    IN IF \E i \in DOMAIN list : list[i] = Thrown THEN Thrown
       ELSE IF mapping.outputWrapper # << >>
       THEN setValue(EmptyObj, mapping.outputWrapper, Arr(list))
       ELSE Arr(list)

\* transformArray: every element of the root array goes through transformObject
transformArray(source, mapping) ==
    LET rootArray == getValue(source, mapping.root)
    IN IF rootArray.t # "arr" THEN Arr(<< >>)
       ELSE LET list == [i \in DOMAIN rootArray.a |->
                            transformObject(rootArray.a[i], mapping)]
            IN IF \E i \in DOMAIN list : list[i] = Thrown THEN Thrown
               ELSE IF mapping.outputWrapper # << >>
               THEN setValue(EmptyObj, mapping.outputWrapper, Arr(list))
               ELSE Arr(list)

\* variant: a raising script is not caught
executeCustomLogic_Rethrows(value, logic) ==
    CASE logic.kind \in {"syntax", "throw"} -> Thrown
      [] logic.kind = "field" ->
             IF value.t \in {"undef", "null"} THEN Thrown ELSE Field(value, logic.key)
      [] logic.kind = "value" -> value
      [] OTHER -> Undef

\* executeCustomLogic: new Function('value', logic)(value) inside try/catch.
\* A script is a record: "value" is `return value`, "field" is
\* `return value.<key>`, "none" has no return, "throw" is
\* `throw new Error(<message>)`, "syntax" does not compile.
executeCustomLogic(value, logic) ==
    LET ScriptError(message) ==
            One("error", Str("Script Error: " \o
                             (IF message = "" THEN "Unknown error" ELSE message)))
    IN CASE logic.kind = "syntax" -> ScriptError(logic.message)
         [] logic.kind = "throw" -> ScriptError(logic.message)
         [] logic.kind = "field" ->
                IF value.t \in {"undef", "null"}
                THEN ScriptError("Cannot read properties of " \o
                                 (IF value.t = "null" THEN "null" ELSE "undefined"))
                ELSE Field(value, logic.key)
         [] logic.kind = "value" -> value
         [] OTHER -> Undef

\* TransformerService.transform; a missing root or logic is an absent field
transform(sourceData, mapping) ==
    IF mapping = NoSpec THEN sourceData
    ELSE IF mapping.type = "ARRAY" /\ "root" \in DOMAIN mapping
    THEN transformArray(sourceData, mapping)
    ELSE IF mapping.type = "CUSTOM" /\ "logic" \in DOMAIN mapping
    THEN executeCustomLogic(sourceData, mapping.logic)
    ELSE transformObject(sourceData, mapping)

(***************************************************************************)
(* Errors: an Error object with an optional axios response                 *)
(***************************************************************************)
NoError == [message |-> "", hasResponse |-> FALSE, status |-> 0, data |-> Undef]
LocalError(msg) == [message |-> msg, hasResponse |-> FALSE, status |-> 0, data |-> Undef]
RemoteError(msg, status, data) ==
    [message |-> msg, hasResponse |-> TRUE, status |-> status, data |-> data]

RequestContractError == LocalError("Request Contract Validation Failed")
ResponseContractError == LocalError("Schema validation failed")
JsonPathError == LocalError("obj needs to be an object")
BearerTokenError == LocalError("Failed to generate bearer token")
OAuth2TokenError == LocalError("Failed to obtain OAuth2 token")
BearerMissingError == LocalError("Bearer token missing and no fallback/generation configured")
PrimitiveAssignError == LocalError("TypeError: Cannot create property 'message'")
SetValueError == LocalError("TypeError: Cannot create property")

\* failures the transport can raise: no response, or a response with a body
TransportErrors ==
    { LocalError("ECONNREFUSED"),
      RemoteError("Request failed with status code 500", 500, EmptyObj),
      RemoteError("Request failed with status code 404", 404, One("error", Str("nf"))),
      RemoteError("Request failed with status code 502", 502, Num(5)) }

\* bodies a successful target call can return
TargetResponses == { One("id", Num(7)), One("name", Str("x")) }

(***************************************************************************)
(* Mapping configurations                                                  *)
(***************************************************************************)
Path(p) == [t |-> "path", p |-> p]
NoSchema == [present |-> FALSE, required |-> {}]
RequireId == [present |-> TRUE, required |-> {"id"}]
\* ajv validator of a {type: object, required: [...]} schema
SchemaAccepts(schema, v) == IsObject(v) /\ schema.required \subseteq Keys(v)

NoResilience == [present |-> FALSE, retryCount |-> 0]
Resilience(n) == [present |-> TRUE, retryCount |-> n]

TargetApi(url, method, dyn, res) ==
    [url |-> url, method |-> method,
     queryParams |-> IF dyn THEN One("q", Path(<<"id">>)) ELSE Undef,
     pathParams |-> IF dyn THEN [k \in {"id"} |-> <<"id">>] ELSE [k \in {} |-> << >>],
     resilience |-> res]

\* a target whose query parameter q and path parameter :id are read from the payload
DynamicApi(url, method, path, res) ==
    [url |-> url, method |-> method, queryParams |-> One("q", Path(path)),
     pathParams |-> [k \in {"id"} |-> path], resilience |-> res]

NoAuth ==
    [present |-> FALSE, authType |-> "NONE", config |-> [k \in {} |-> ""],
     headers |-> [h \in {} |-> ""]]
\* an AuthConfig: config holds the scalar keys, headers the CUSTOM header map
AuthConfig(type, config) ==
    [present |-> TRUE, authType |-> type, config |-> config, headers |-> [h \in {} |-> ""]]
BasicAuth == AuthConfig("BASIC", [username |-> "u", password |-> "p"])
BearerDynamic == AuthConfig("BEARER_TOKEN", [tokenUrl |-> "https://login"])
OAuth2Auth ==
    AuthConfig("OAUTH2_CLIENT_CREDENTIALS",
               [tokenUrl |-> "https://oauth", clientId |-> "c1", clientSecret |-> "s1"])
ConfigKey(config, k) == IF k \in DOMAIN config THEN config[k] ELSE ""

NoContext == [present |-> FALSE, method |-> "", queryParams |-> Undef, headers |-> [h \in {} |-> ""]]

UidRule == Rule(<<"userInfo", "id">>, <<"uid">>, Undef, FALSE)
IdRule == Rule(<<"id">>, <<"id">>, Undef, FALSE)
MessageRule == Rule(<<"message">>, <<"reason">>, Str("unknown"), FALSE)
ErrorRule == Rule(<<"error">>, <<"reason">>, Undef, FALSE)

Step(id, api, reqMap, respMap, saveAs) ==
    [id |-> id, targetApi |-> api, requestMapping |-> reqMap,
     responseMapping |-> respMap, saveResultToContextAs |-> saveAs]

(***************************************************************************)
(* State                                                                   *)
(***************************************************************************)
VARIABLES
    cfg,            \* the MappingConfig, payload and context of the invocation
    pc,             \* position of the invocation inside execute
    stepIdx,        \* index of the running workflow step (0: no workflow)
    sharedContext,  \* execute's sharedContext
    call,           \* executeSingleCall's locals: url, query, body, headers
    attempts,       \* executeSingleCall's attempts counter
    targetResponse, \* executeSingleCall's targetResponse
    finalResponse,  \* execute's finalResponse
    stepResults,    \* the transformed result of every finished step
    net,            \* every network call issued by the invocation, in order
    stages,         \* the pipeline stages entered by the invocation, in order
    err,            \* the error caught by execute's catch block
    failedAt,       \* the stage that raised it
    outcome,        \* what execute handed to its caller
    auditLog,       \* the records handed to auditRepo.save
    tokenCache,     \* BearerAuthProvider.tokenCache (static, process-wide)
    now,            \* Date.now()
    invocations,    \* number of execute invocations started
    authLog,        \* cache look-ups, login calls and cache writes, in order
    oauthCache,     \* tokenCache of the OAuth2Provider instance built last
    boundary,       \* executeCorrection: request, steps taken, response envelope
    peer            \* the locals of a second invocation of execute, suspended
                    \* at an await while the first one runs

vars == <<cfg, pc, stepIdx, sharedContext, call, attempts, targetResponse,
          finalResponse, stepResults, net, stages, err, failedAt, outcome,
          auditLog, tokenCache, now, invocations, authLog, oauthCache, boundary,
          peer>>

\* an empty token cache
NoTokens == [k \in {} |-> [token |-> "", expiresAt |-> 0]]
NoCall == [url |-> [template |-> "", subst |-> EmptyObj], method |-> "",
           queryParams |-> EmptyObj, body |-> Undef, headers |-> [h \in {} |-> ""]]
NoOutcome == [kind |-> "none", value |-> Undef, error |-> NoError]
NoConfig ==
    [payload |-> Undef, requestSchema |-> NoSchema, responseSchema |-> NoSchema,
     errorMapping |-> NoSpec, authConfig |-> NoAuth,
     targetApi |-> TargetApi("", "GET", FALSE, NoResilience),
     requestMapping |-> NoSpec, responseMapping |-> NoSpec, steps |-> << >>,
     context |-> NoContext, auditRepo |-> "logger"]
\* executeCorrection before any request; "" stands for an absent string
NoBoundary ==
    [phase |-> "idle",
     request |-> [connectorKey |-> "", method |-> "", authType |-> "",
                  authConfig |-> [present |-> FALSE, nested |-> FALSE, authType |-> "",
                                  fields |-> [k \in {} |-> ""]],
                  payload |-> Undef, queryParams |-> Undef,
                  headerData |-> [h \in {} |-> ""]],
     stored |-> [name |-> "", hasTargetApi |-> FALSE, mappingConfig |-> NoConfig],
     effectiveAuth |-> NoAuth, validation |-> "", trace |-> << >>,
     envelope |-> [pending |-> TRUE]]

\* the mapping handed to executeSingleCall: the step's targetApi and mappings
\* laid over the top-level mapping
CurMapping ==
    IF stepIdx = 0 THEN cfg
    ELSE [cfg EXCEPT !.targetApi = cfg.steps[stepIdx].targetApi,
                     !.requestMapping = cfg.steps[stepIdx].requestMapping,
                     !.responseMapping = cfg.steps[stepIdx].responseMapping]
\* the payload handed to executeSingleCall
CurPayload == IF stepIdx = 0 THEN cfg.payload ELSE sharedContext

\* entering the catch block of execute
Raise(e, stage) ==
    /\ err' = e
    /\ failedAt' = stage
    /\ pc' = "catch"

(***************************************************************************)
(* Header maps                                                             *)
(***************************************************************************)
\* { ...headers, [name]: value }
WithHeader_DropsDraft(h, name, value) == [x \in {name} |-> value]
WithHeader(h, name, value) ==
    [x \in DOMAIN h \cup {name} |-> IF x = name THEN value ELSE h[x]]
\* a || b
OrElse(a, b) == IF Truthy(a) THEN a ELSE b

(***************************************************************************)
(* execute: entry                                                          *)
(***************************************************************************)
Begin(c) ==
    /\ cfg' = c
    /\ pc' = "validateReq"
    /\ stepIdx' = 0
    /\ sharedContext' = EmptyObj
    /\ call' = NoCall
    /\ attempts' = 0
    /\ targetResponse' = Undef
    /\ finalResponse' = Undef
    /\ stepResults' = << >>
    /\ net' = << >>
    /\ stages' = << >>
    /\ err' = NoError
    /\ failedAt' = ""
    /\ outcome' = NoOutcome
    /\ auditLog' = << >>
    /\ invocations' = invocations + 1
    /\ UNCHANGED <<tokenCache, now, authLog>>

\* variant: request validation never rejects
ValidateRequest_AcceptsAll ==
    /\ pc = "validateReq"
    /\ stages' = Append(stages, "VALIDATE_REQUEST")
    /\ sharedContext' = Spread(EmptyObj, cfg.payload)
    /\ stepIdx' = IF Len(cfg.steps) > 0 THEN 1 ELSE 0
    /\ pc' = "resolve"
    /\ UNCHANGED <<cfg, call, attempts, targetResponse, finalResponse, stepResults, net,
                   err, failedAt, outcome, auditLog, tokenCache, now, invocations, authLog>>
    /\ UNCHANGED <<boundary, oauthCache, peer>>

\* execute, step 0: request contract validation, then sharedContext = {...payload}
ValidateRequest ==
    /\ pc = "validateReq"
    /\ stages' = Append(stages, "VALIDATE_REQUEST")
    /\ IF cfg.requestSchema.present /\ ~SchemaAccepts(cfg.requestSchema, cfg.payload)
       THEN /\ Raise(RequestContractError, "VALIDATE_REQUEST")
            /\ UNCHANGED <<sharedContext, stepIdx>>
       ELSE /\ sharedContext' = Spread(EmptyObj, cfg.payload)
            /\ stepIdx' = IF Len(cfg.steps) > 0 THEN 1 ELSE 0
            /\ pc' = "resolve"
            /\ UNCHANGED <<err, failedAt>>
    /\ UNCHANGED <<cfg, call, attempts, targetResponse, finalResponse, stepResults,
                   net, outcome, auditLog, tokenCache, now, invocations, authLog>>
    /\ UNCHANGED <<boundary, oauthCache, peer>>

(***************************************************************************)
(* executeSingleCall                                                       *)
(***************************************************************************)
\* context.method || mapping.targetApi.method
EffectiveMethod(m) ==
    IF cfg.context.method # "" THEN cfg.context.method ELSE m.targetApi.method
RawQueryParams(m) == Spread(m.targetApi.queryParams, cfg.context.queryParams)
IsPathString(v) == v.t = "path"
EffectiveQueryParams(m, p) ==
    LET raw == RawQueryParams(m)
        kept == {k \in Keys(raw) :
                    ~IsPathString(raw.f[k]) \/ getValue(p, raw.f[k].p) # Undef}
    IN Obj([k \in kept |-> IF IsPathString(raw.f[k]) THEN getValue(p, raw.f[k].p)
                           ELSE raw.f[k]])
EffectiveUrl(m, p) ==
    LET pp == m.targetApi.pathParams
        found == {ph \in DOMAIN pp : getValue(p, pp[ph]) # Undef}
    IN [template |-> m.targetApi.url,
        subst |-> Obj([ph \in found |-> Str(ToStr(getValue(p, pp[ph])))])]
ResolveThrows(m, p) ==
    /\ JsonPathThrows(p)
    /\ \/ \E k \in Keys(RawQueryParams(m)) : IsPathString(RawQueryParams(m).f[k])
       \/ DOMAIN m.targetApi.pathParams # {}

\* variant: the request schema is checked after the parameters are resolved
ResolveParams_ThenValidate ==
    /\ pc = "resolve"
    /\ stages' = <<"RESOLVE_PARAMS", "VALIDATE_REQUEST">>
    /\ IF ResolveThrows(CurMapping, CurPayload)
       THEN /\ Raise(JsonPathError, "RESOLVE_PARAMS")
            /\ UNCHANGED call
       ELSE /\ call' = [NoCall EXCEPT
                           !.method = EffectiveMethod(CurMapping),
                           !.queryParams = EffectiveQueryParams(CurMapping, CurPayload),
                           !.url = EffectiveUrl(CurMapping, CurPayload)]
            /\ pc' = "transformReq"
            /\ UNCHANGED <<err, failedAt>>
    /\ UNCHANGED <<cfg, stepIdx, sharedContext, attempts, targetResponse, finalResponse,
                   stepResults, net, outcome, auditLog, tokenCache, now, invocations,
                   authLog>>
    /\ UNCHANGED <<boundary, oauthCache, peer>>

\* steps 0, 0.1 and 1: query parameters and path parameters
ResolveParams ==
    /\ pc = "resolve"
    /\ stages' = Append(stages, "RESOLVE_PARAMS")
    /\ IF ResolveThrows(CurMapping, CurPayload)
       THEN /\ Raise(JsonPathError, "RESOLVE_PARAMS")
            /\ UNCHANGED call
       ELSE /\ call' = [NoCall EXCEPT
                           !.method = EffectiveMethod(CurMapping),
                           !.queryParams = EffectiveQueryParams(CurMapping, CurPayload),
                           !.url = EffectiveUrl(CurMapping, CurPayload)]
            /\ pc' = "transformReq"
            /\ UNCHANGED <<err, failedAt>>
    /\ UNCHANGED <<cfg, stepIdx, sharedContext, attempts, targetResponse, finalResponse,
                   stepResults, net, outcome, auditLog, tokenCache, now, invocations,
                   authLog>>
    /\ UNCHANGED <<boundary, oauthCache, peer>>

HasRules(mapping) ==
    /\ mapping # NoSpec
    /\ Len(mapping.mappings) > 0
TargetPayload(m, p) ==
    LET t == IF ~HasRules(m.requestMapping) THEN p ELSE transform(p, m.requestMapping)
    IN IF t = Undef /\ call.method \in {"POST", "PUT", "PATCH"} THEN EmptyObj ELSE t

\* step 2: transform the request
TransformRequest ==
    /\ pc = "transformReq"
    /\ stages' = Append(stages, "TRANSFORM_REQUEST")
    /\ IF TargetPayload(CurMapping, CurPayload) = Thrown
       THEN /\ Raise(SetValueError, "TRANSFORM_REQUEST")
            /\ UNCHANGED call
       ELSE /\ call' = [call EXCEPT !.body = TargetPayload(CurMapping, CurPayload)]
            /\ pc' = "auth"
            /\ UNCHANGED <<err, failedAt>>
    \* the payload object once the rule loop of transformObject has run on it
    /\ LET mapping == CurMapping.requestMapping
           after == IF /\ HasRules(mapping)
                       /\ ~(mapping.type = "ARRAY" /\ "root" \in DOMAIN mapping)
                       /\ ~(mapping.type = "CUSTOM" /\ "logic" \in DOMAIN mapping)
                    THEN sourceAfter(CurPayload, EmptyObj, {}, mapping.mappings)
                    ELSE CurPayload
       IN IF stepIdx = 0
          THEN cfg' = [cfg EXCEPT !.payload = after] /\ UNCHANGED sharedContext
          ELSE sharedContext' = after /\ UNCHANGED cfg
    /\ UNCHANGED <<stepIdx, attempts, targetResponse, finalResponse,
                   stepResults, net, outcome, auditLog, tokenCache, now,
                   invocations, authLog>>
    /\ UNCHANGED <<boundary, oauthCache, peer>>

(***************************************************************************)
(* Authentication providers                                                *)
(***************************************************************************)
NetCall(kind, ok, res, e) ==
    [kind |-> kind, step |-> stepIdx, req |-> call, ok |-> ok, res |-> res, error |-> e]
AuthEvent(kind, key, token, expiresAt, reported) ==
    [kind |-> kind, key |-> key, at |-> now, inv |-> invocations, token |-> token,
     expiresAt |-> expiresAt, reported |-> reported, config |-> cfg.authConfig.config]

\* String.prototype.toUpperCase on the tags that occur
ToUpperCase(s) ==
    CASE s = "basic" -> "BASIC"
      [] s = "api_key" -> "API_KEY"
      [] s = "Bearer_Token" -> "BEARER_TOKEN"
      [] s = "oauth2_client_credentials" -> "OAUTH2_CLIENT_CREDENTIALS"
      [] s = "jwt" -> "JWT"
      [] s = "Custom" -> "CUSTOM"
      [] s = "none" -> "NONE"
      [] s = "kerberos" -> "KERBEROS"
      [] OTHER -> s
\* variant: the tag is compared as written
getProvider_CaseSensitive(type) ==
    IF type \in {"BASIC", "API_KEY", "BEARER_TOKEN", "OAUTH2_CLIENT_CREDENTIALS",
                 "JWT", "CUSTOM"}
    THEN type ELSE "NONE"
\* AuthStrategyFactory.getProvider, switch (type.toUpperCase()): the provider
\* class chosen for a type tag, NoAuthProvider by default
getProvider(type) ==
    IF ToUpperCase(type) \in {"BASIC", "API_KEY", "BEARER_TOKEN",
                              "OAUTH2_CLIENT_CREDENTIALS", "JWT", "CUSTOM"}
    THEN ToUpperCase(type) ELSE "NONE"
\* variant: no provider requires anything
validate_NothingRequired(provider, authConfig) == ""
\* AuthProvider.validate of each provider class: the message of the Error it
\* throws, "" when it returns
validate(provider, authConfig) ==
    LET config == authConfig.config
        missing(k) == ConfigKey(config, k) = ""
        firstMissing(required) ==
            required[CHOOSE i \in 1..Len(required) :
                        /\ missing(required[i])
                        /\ \A j \in 1..(i - 1) : ~missing(required[j])]
        loop(type, required) ==
            IF \E i \in 1..Len(required) : missing(required[i])
            THEN "AuthType " \o type \o " requires \"" \o firstMissing(required)
                    \o "\" in config"
            ELSE ""
    IN CASE provider = "BASIC" ->
              IF missing("username") \/ missing("password")
              THEN "AuthType BASIC requires \"username\" and \"password\" in config"
              ELSE ""
         [] provider = "API_KEY" ->
              IF missing("keyName") \/ missing("keyValue")
              THEN "AuthType API_KEY requires \"keyName\" and \"keyValue\" in config"
              ELSE ""
         [] provider = "BEARER_TOKEN" ->
              IF missing("token") /\ missing("tokenUrl")
              THEN "AuthType BEARER_TOKEN requires either \"token\" or \"tokenUrl\" in config"
              ELSE ""
         [] provider = "CUSTOM" ->
              IF missing("headers")
              THEN "AuthType CUSTOM requires \"headers\" object in config"
              ELSE ""
         [] provider = "JWT" -> loop("JWT", <<"issuer", "audience", "privateKeyRef">>)
         [] provider = "OAUTH2_CLIENT_CREDENTIALS" ->
              loop("OAUTH2_CLIENT_CREDENTIALS", <<"tokenUrl", "clientId", "clientSecret">>)
         [] OTHER -> ""

\* requestConfig.headers before injection: { ...context.headers }
BaseHeaders == cfg.context.headers

\* BearerAuthProvider.getDynamicToken: cacheKey
CacheKey(config) == ConfigKey(config, "tokenUrl") \o ConfigKey(config, "clientId")
\* variant: an entry is still used at the instant it expires
CacheHit_AtExpiry(key) == key \in DOMAIN tokenCache /\ tokenCache[key].expiresAt >= now
\* cached && cached.expiresAt > Date.now()
CacheHit(key) == key \in DOMAIN tokenCache /\ tokenCache[key].expiresAt > now
\* BearerAuthProvider.inject: header written once a token is known
BearerHeaders(config, token) ==
    WithHeader(BaseHeaders,
               IF ConfigKey(config, "headerName") # "" THEN config.headerName
               ELSE "Authorization",
               (IF ConfigKey(config, "tokenPrefix") # "" THEN config.tokenPrefix
                ELSE "Bearer ") \o token)
\* BasicAuthProvider.inject
BasicHeaders(config) ==
    WithHeader(BaseHeaders, "Authorization",
               "Basic b64(" \o ConfigKey(config, "username") \o ":"
                            \o ConfigKey(config, "password") \o ")")

\* ApiKeyAuthProvider.inject: only location HEADER writes anything
ApiKeyHeaders(config) ==
    IF ConfigKey(config, "location") \in {"", "HEADER"}
    THEN WithHeader(BaseHeaders,
                    IF ConfigKey(config, "keyName") # "" THEN config.keyName
                    ELSE "X-API-KEY",
                    ConfigKey(config, "keyValue"))
    ELSE BaseHeaders
\* CustomAuthProvider.inject: { ...requestConfig.headers, ...config.headers }
CustomHeaders(custom) ==
    [x \in DOMAIN BaseHeaders \cup DOMAIN custom |->
        IF x \in DOMAIN custom THEN custom[x] ELSE BaseHeaders[x]]

\* OAuth2Provider: `private tokenCache = {}`, a field of each instance, and
\* getProvider answers `new OAuth2Provider()` on every call
NewOAuth2Provider == NoTokens
\* OAuth2Provider.inject: cacheKey = `${tokenUrl}-${clientId}`
OAuthCacheKey(config) == ConfigKey(config, "tokenUrl") \o "-" \o ConfigKey(config, "clientId")
\* the POST is skipped unless `!token || cached.expiresAt <= now`
OAuthCacheHit(cache, key) ==
    key \in DOMAIN cache /\ cache[key].token # "" /\ ~(cache[key].expiresAt <= now)
\* Authorization: `Bearer ${token}`
OAuthHeaders(token) == WithHeader(BaseHeaders, "Authorization", "Bearer " \o token)
\* const now = Date.now(), read before the POST is awaited
InjectNow == authLog[Len(authLog)].at

\* the loop starts: attempts = 0
EnterInvoke(headers) ==
    /\ call' = [call EXCEPT !.headers = headers]
    /\ attempts' = 0
    /\ pc' = "invoke"

\* step 3: prepare auth (authFactory.getProvider(type).inject)
Authenticate ==
    /\ pc = "auth"
    /\ stages' = Append(stages, "AUTHENTICATE")
    /\ LET auth == cfg.authConfig
           config == auth.config
           provider == getProvider(auth.authType)
       IN CASE ~auth.present \/ provider \in {"NONE", "JWT"} ->
                 /\ EnterInvoke(BaseHeaders)
                 /\ UNCHANGED <<net, err, failedAt, authLog, oauthCache>>
            [] auth.present /\ provider = "API_KEY" ->
                 /\ EnterInvoke(ApiKeyHeaders(config))
                 /\ UNCHANGED <<net, err, failedAt, authLog, oauthCache>>
            [] auth.present /\ provider = "CUSTOM" ->
                 /\ EnterInvoke(CustomHeaders(auth.headers))
                 /\ UNCHANGED <<net, err, failedAt, authLog, oauthCache>>
            [] auth.present /\ provider = "BASIC" ->
                 /\ EnterInvoke(BasicHeaders(config))
                 /\ UNCHANGED <<net, err, failedAt, authLog, oauthCache>>
            [] auth.present /\ provider = "BEARER_TOKEN" ->
                 IF ConfigKey(config, "token") # ""
                 THEN /\ EnterInvoke(BearerHeaders(config, config.token))
                      /\ UNCHANGED <<net, err, failedAt, authLog, oauthCache>>
                 ELSE IF ConfigKey(config, "tokenUrl") = ""
                 THEN /\ Raise(BearerMissingError, "AUTHENTICATE")
                      /\ UNCHANGED <<call, attempts, net, authLog, oauthCache>>
                 ELSE IF CacheHit(CacheKey(config))
                 THEN /\ EnterInvoke(BearerHeaders(config, tokenCache[CacheKey(config)].token))
                      /\ authLog' = Append(authLog,
                            AuthEvent("hit", CacheKey(config),
                                      tokenCache[CacheKey(config)].token,
                                      tokenCache[CacheKey(config)].expiresAt, 0))
                      /\ UNCHANGED <<net, err, failedAt, oauthCache>>
                 ELSE /\ pc' = "login"
                      /\ net' = Append(net, NetCall("login", TRUE, Undef, NoError))
                      /\ authLog' = Append(authLog,
                            AuthEvent("login", CacheKey(config), "", 0, 0))
                      /\ UNCHANGED <<call, attempts, err, failedAt, oauthCache>>
            [] auth.present /\ provider = "OAUTH2_CLIENT_CREDENTIALS" ->
                 LET instance == NewOAuth2Provider
                     key == OAuthCacheKey(config)
                 IN /\ oauthCache' = instance
                    /\ IF OAuthCacheHit(instance, key)
                       THEN /\ EnterInvoke(OAuthHeaders(instance[key].token))
                            /\ authLog' = Append(authLog,
                                  AuthEvent("oauthhit", key, instance[key].token,
                                            instance[key].expiresAt, 0))
                            /\ UNCHANGED <<net, err, failedAt>>
                       ELSE IF ConfigKey(config, "tokenUrl") = ""
                       THEN /\ Raise(OAuth2TokenError, "AUTHENTICATE")
                            /\ UNCHANGED <<call, attempts, net, authLog>>
                       ELSE /\ pc' = "oauth"
                            /\ net' = Append(net, NetCall("oauth", TRUE, Undef, NoError))
                            /\ authLog' = Append(authLog, AuthEvent("oauth", key, "", 0, 0))
                            /\ UNCHANGED <<call, attempts, err, failedAt>>
    /\ UNCHANGED <<cfg, stepIdx, sharedContext, targetResponse, finalResponse,
                   stepResults, outcome, auditLog, tokenCache, now, invocations>>
    /\ UNCHANGED <<boundary, peer>>

\* the token picked out of a login response, by the fixed list of shapes
ExtractToken(data) ==
    LET a == Field(data, "accessToken")
    IN IF a.t = "str" THEN a
       ELSE IF Truthy(Field(a, "accessToken")) THEN Field(a, "accessToken")
       ELSE OrElse(Field(data, "access_token"),
              OrElse(Field(data, "token"),
                OrElse(Field(Field(data, "data"), "token"),
                       Field(Field(Field(data, "data"), "accessToken"), "accessToken"))))
\* data.expires_in || 3600
ExpiresIn(data) ==
    IF Truthy(Field(data, "expires_in")) THEN Field(data, "expires_in").n
    ELSE DefaultExpiresIn
\* Date.now() + expiresIn * 1000 - 60000
ExpiresAt(data) == now + ExpiresIn(data) * MsPerSecond - SafetyMarginMs

\* replies of the login endpoint: a failure, or a body
LoginFailure == [ok |-> FALSE, data |-> Undef]
LoginReplies ==
    { LoginFailure,
      [ok |-> TRUE, data |-> One("access_token", Str("T1"))],
      [ok |-> TRUE, data |-> Obj([access_token |-> Str("T0"), expires_in |-> Num(0)])],
      [ok |-> TRUE, data |-> Obj([token |-> Str("T2"), expires_in |-> Num(120)])],
      [ok |-> TRUE, data |-> Obj([accessToken |-> One("accessToken", Str("T3")),
                                  expires_in |-> Num(30)])],
      [ok |-> TRUE, data |-> One("status", Str("denied"))] }

\* variant: a failed login consumes an attempt of the retry budget
LoginRespond_CountsAttempt ==
    /\ pc = "login"
    /\ \E r \in LoginReplies :
         LET config == cfg.authConfig.config
             key == CacheKey(config)
             token == ExtractToken(r.data)
         IN IF r.ok /\ Truthy(token)
            THEN /\ tokenCache' =
                       [k \in DOMAIN tokenCache \cup {key} |->
                           IF k = key
                           THEN [token |-> ToStr(token), expiresAt |-> ExpiresAt(r.data)]
                           ELSE tokenCache[k]]
                 /\ authLog' = Append(authLog,
                       AuthEvent("set", key, ToStr(token), ExpiresAt(r.data),
                                 IF Truthy(Field(r.data, "expires_in"))
                                 THEN Field(r.data, "expires_in").n ELSE 0))
                 /\ EnterInvoke(BearerHeaders(config, ToStr(token)))
                 /\ UNCHANGED <<err, failedAt>>
            ELSE /\ attempts' = attempts + 1
                 /\ IF attempts + 1 > (IF CurMapping.targetApi.resilience.present
                                       THEN CurMapping.targetApi.resilience.retryCount
                                       ELSE 0)
                    THEN Raise(BearerTokenError, "AUTHENTICATE")
                    ELSE pc' = "auth" /\ UNCHANGED <<err, failedAt>>
                 /\ authLog' = Append(authLog, AuthEvent("fail", key, "", 0, 0))
                 /\ UNCHANGED <<tokenCache, call>>
    /\ UNCHANGED <<cfg, stepIdx, sharedContext, targetResponse, finalResponse,
                   stepResults, net, stages, outcome, auditLog, now, invocations>>
    /\ UNCHANGED <<boundary, oauthCache, peer>>

\* variant: a login response does not replace an entry that is there
LoginRespond_KeepsFirst ==
    /\ pc = "login"
    /\ \E r \in LoginReplies :
         LET config == cfg.authConfig.config
             key == CacheKey(config)
             token == ExtractToken(r.data)
         IN IF r.ok /\ Truthy(token)
            THEN /\ tokenCache' =
                       [k \in DOMAIN tokenCache \cup {key} |->
                           IF k = key /\ key \notin DOMAIN tokenCache
                           THEN [token |-> ToStr(token), expiresAt |-> ExpiresAt(r.data)]
                           ELSE tokenCache[k]]
                 /\ authLog' = Append(authLog,
                       AuthEvent("set", key, ToStr(token), ExpiresAt(r.data),
                                 IF Truthy(Field(r.data, "expires_in"))
                                 THEN Field(r.data, "expires_in").n ELSE 0))
                 /\ EnterInvoke(BearerHeaders(config, ToStr(token)))
                 /\ UNCHANGED <<err, failedAt>>
            ELSE /\ Raise(BearerTokenError, "AUTHENTICATE")
                 /\ authLog' = Append(authLog, AuthEvent("fail", key, "", 0, 0))
                 /\ UNCHANGED <<tokenCache, call, attempts>>
    /\ UNCHANGED <<cfg, stepIdx, sharedContext, targetResponse, finalResponse,
                   stepResults, net, stages, outcome, auditLog, now, invocations>>
    /\ UNCHANGED <<boundary, oauthCache, peer>>

\* getDynamicToken after the cache miss: the axios.post to tokenUrl resolves
LoginRespond ==
    /\ pc = "login"
    /\ \E r \in LoginReplies :
         LET config == cfg.authConfig.config
             key == CacheKey(config)
             token == ExtractToken(r.data)
         IN IF r.ok /\ Truthy(token)
            THEN /\ tokenCache' =
                       [k \in DOMAIN tokenCache \cup {key} |->
                           IF k = key
                           THEN [token |-> ToStr(token), expiresAt |-> ExpiresAt(r.data)]
                           ELSE tokenCache[k]]
                 /\ authLog' = Append(authLog,
                       AuthEvent("set", key, ToStr(token), ExpiresAt(r.data),
                                 IF Truthy(Field(r.data, "expires_in"))
                                 THEN Field(r.data, "expires_in").n ELSE 0))
                 /\ EnterInvoke(BearerHeaders(config, ToStr(token)))
                 /\ UNCHANGED <<err, failedAt>>
            ELSE /\ Raise(BearerTokenError, "AUTHENTICATE")
                 /\ authLog' = Append(authLog, AuthEvent("fail", key, "", 0, 0))
                 /\ UNCHANGED <<tokenCache, call, attempts>>
    /\ UNCHANGED <<cfg, stepIdx, sharedContext, targetResponse, finalResponse,
                   stepResults, net, stages, outcome, auditLog, now, invocations>>
    /\ UNCHANGED <<boundary, oauthCache, peer>>

OAuthReplies ==
    { [ok |-> FALSE, data |-> Undef],
      [ok |-> TRUE, data |-> One("access_token", Str("O1"))],
      [ok |-> TRUE, data |-> Obj([access_token |-> Str("O2"), expires_in |-> Num(120)])],
      [ok |-> TRUE, data |-> One("error", Str("invalid_client"))] }

\* OAuth2Provider.inject after the cache miss: the axios.post to tokenUrl
\* resolves; the token is stored in the cache of this provider instance
OAuthRespond ==
    /\ pc = "oauth"
    /\ \E r \in OAuthReplies :
         LET key == OAuthCacheKey(cfg.authConfig.config)
             token == ToStr(Field(r.data, "access_token"))
             \* what `!token` reads later: an absent access_token is falsy
             kept == IF Truthy(Field(r.data, "access_token")) THEN token ELSE ""
             expiresAt == InjectNow + ExpiresIn(r.data) * MsPerSecond - SafetyMarginMs
         IN IF r.ok
            THEN /\ oauthCache' =
                       [k \in DOMAIN oauthCache \cup {key} |->
                           IF k = key THEN [token |-> kept, expiresAt |-> expiresAt]
                           ELSE oauthCache[k]]
                 /\ authLog' = Append(authLog,
                       AuthEvent("oauthset", key, kept, expiresAt, 0))
                 /\ EnterInvoke(OAuthHeaders(token))
                 /\ UNCHANGED <<err, failedAt>>
            ELSE /\ Raise(OAuth2TokenError, "AUTHENTICATE")
                 /\ authLog' = Append(authLog, AuthEvent("oauthfail", key, "", 0, 0))
                 /\ UNCHANGED <<call, attempts, oauthCache>>
    /\ UNCHANGED <<cfg, stepIdx, sharedContext, targetResponse, finalResponse,
                   stepResults, net, stages, outcome, auditLog, tokenCache, now,
                   invocations>>
    /\ UNCHANGED <<boundary, peer>>

(***************************************************************************)
(* executeSingleCall: invocation with retry, response transformation       *)
(***************************************************************************)
\* resilience?.retryCount || 0
MaxAttempts(m) ==
    IF m.targetApi.resilience.present THEN m.targetApi.resilience.retryCount ELSE 0

\* variant: the budget counts attempts, not retries
RetryOrThrow_CountsAttempts(e) ==
    /\ attempts' = attempts + 1
    /\ IF attempts + 1 >= MaxAttempts(CurMapping)
       THEN Raise(e, "INVOKE")
       ELSE /\ pc' = "delay"
            /\ UNCHANGED <<err, failedAt>>

\* variant: an exhausted budget is swallowed and the pipeline goes on
RetryOrThrow_Swallows(e) ==
    /\ attempts' = attempts + 1
    /\ pc' = IF attempts + 1 > MaxAttempts(CurMapping) THEN "transformResp" ELSE "delay"
    /\ UNCHANGED <<err, failedAt>>

\* the catch clause of the retry loop
RetryOrThrow(e) ==
    /\ attempts' = attempts + 1
    /\ IF attempts + 1 > MaxAttempts(CurMapping)
       THEN Raise(e, "INVOKE")
       ELSE /\ pc' = "delay"
            /\ UNCHANGED <<err, failedAt>>

\* variant: the target call does not wait for an outstanding token request
Invoke_WithoutAwait ==
    /\ pc \in {"invoke", "login", "oauth"}
    /\ attempts <= MaxAttempts(CurMapping)
    /\ stages' = Append(stages, "INVOKE")
    /\ \/ \E r \in TargetResponses :
            /\ net' = Append(net, NetCall("target", TRUE, r, NoError))
            /\ targetResponse' = r
            /\ pc' = "transformResp"
            /\ UNCHANGED <<attempts, err, failedAt>>
       \/ \E e \in TransportErrors :
            /\ net' = Append(net, NetCall("target", FALSE, Undef, e))
            /\ RetryOrThrow(e)
            /\ UNCHANGED targetResponse
    /\ UNCHANGED <<cfg, stepIdx, sharedContext, call, finalResponse, stepResults,
                   outcome, auditLog, tokenCache, now, invocations, authLog>>
    /\ UNCHANGED <<boundary, oauthCache, peer>>

\* step 4: one pass of while (attempts <= maxAttempts): apiCaller.call
Invoke ==
    /\ pc = "invoke"
    /\ attempts <= MaxAttempts(CurMapping)
    /\ stages' = Append(stages, "INVOKE")
    /\ \/ \E r \in TargetResponses :
            /\ net' = Append(net, NetCall("target", TRUE, r, NoError))
            /\ targetResponse' = r
            /\ pc' = "transformResp"
            /\ UNCHANGED <<attempts, err, failedAt>>
       \/ \E e \in TransportErrors :
            /\ net' = Append(net, NetCall("target", FALSE, Undef, e))
            /\ RetryOrThrow(e)
            /\ UNCHANGED targetResponse
    /\ UNCHANGED <<cfg, stepIdx, sharedContext, call, finalResponse, stepResults,
                   outcome, auditLog, tokenCache, now, invocations, authLog>>
    /\ UNCHANGED <<boundary, oauthCache, peer>>

\* await new Promise(res => setTimeout(res, retryDelay))
RetryDelay ==
    /\ pc = "delay"
    /\ pc' = "invoke"
    /\ UNCHANGED <<cfg, stepIdx, sharedContext, call, attempts, targetResponse,
                   finalResponse, stepResults, net, stages, err, failedAt, outcome,
                   auditLog, tokenCache, now, invocations, authLog>>
    /\ UNCHANGED <<boundary, oauthCache, peer>>

\* step 5: the result of executeSingleCall
CallResult(m) ==
    IF m.responseMapping # NoSpec THEN transform(targetResponse, m.responseMapping)
    ELSE targetResponse

\* variant: a step's result is not published to the shared context
StepDone_NoPublish(result) ==
    /\ sharedContext' = sharedContext
    /\ finalResponse' = result
    /\ stepResults' = Append(stepResults, result)
    /\ IF stepIdx < Len(cfg.steps)
       THEN /\ stepIdx' = stepIdx + 1
            /\ pc' = "resolve"
       ELSE /\ stepIdx' = stepIdx
            /\ pc' = "validateResp"

\* variant: the first step's result stays the result of the workflow
StepDone_KeepsFirst(result) ==
    LET step == cfg.steps[stepIdx]
    IN /\ sharedContext' =
            IF step.saveResultToContextAs # ""
            THEN WithField(sharedContext, step.saveResultToContextAs, result)
            ELSE sharedContext
       /\ finalResponse' = IF stepResults = << >> THEN result ELSE finalResponse
       /\ stepResults' = Append(stepResults, result)
       /\ IF stepIdx < Len(cfg.steps)
          THEN /\ stepIdx' = stepIdx + 1
               /\ pc' = "resolve"
          ELSE /\ stepIdx' = stepIdx
               /\ pc' = "validateResp"

\* what execute does with the result of a step
StepDone(result) ==
    LET step == cfg.steps[stepIdx]
    IN /\ sharedContext' =
            IF step.saveResultToContextAs # ""
            THEN WithField(sharedContext, step.saveResultToContextAs, result)
            ELSE sharedContext
       /\ finalResponse' = result
       /\ stepResults' = Append(stepResults, result)
       /\ IF stepIdx < Len(cfg.steps)
          THEN /\ stepIdx' = stepIdx + 1
               /\ pc' = "resolve"
          ELSE /\ stepIdx' = stepIdx
               /\ pc' = "validateResp"

\* step 5 and the return to execute (workflow loop body or single call)
TransformResponse ==
    /\ pc = "transformResp"
    /\ stages' = Append(stages, "TRANSFORM_RESPONSE")
    /\ IF CallResult(CurMapping) = Thrown
       THEN /\ Raise(SetValueError, "TRANSFORM_RESPONSE")
            /\ UNCHANGED <<finalResponse, sharedContext, stepResults, stepIdx>>
       ELSE /\ IF stepIdx = 0
               THEN /\ finalResponse' = CallResult(CurMapping)
                    /\ pc' = "validateResp"
                    /\ UNCHANGED <<sharedContext, stepResults, stepIdx>>
               ELSE StepDone(CallResult(CurMapping))
            /\ UNCHANGED <<err, failedAt>>
    /\ UNCHANGED <<cfg, call, attempts, targetResponse, net, outcome,
                   auditLog, tokenCache, now, invocations, authLog>>
    /\ UNCHANGED <<boundary, oauthCache, peer>>

(***************************************************************************)
(* execute: response contract, audit, error branch                         *)
(***************************************************************************)
\* await this.auditRepo.save(audit): the logger repository always resolves,
\* a database repository resolves (TRUE) or rejects (FALSE)
SaveResults(auditRepo) == IF auditRepo = "logger" THEN {TRUE} ELSE BOOLEAN
AuditSaveError == LocalError("audit save failed")
AuditRecord(status, message) == [statusCode |-> status, error |-> message]

\* variant: the response is returned without validation
ValidateResponse_AcceptsAll ==
    /\ pc = "validateResp"
    /\ auditLog' = Append(auditLog, AuditRecord(200, ""))
    /\ outcome' = [kind |-> "returned", value |-> finalResponse, error |-> NoError]
    /\ stages' = stages \o <<"VALIDATE_RESPONSE", "DONE">>
    /\ pc' = "done"
    /\ UNCHANGED <<cfg, stepIdx, sharedContext, call, attempts, targetResponse, err, failedAt,
                   finalResponse, stepResults, net, tokenCache, now, invocations, authLog>>
    /\ UNCHANGED <<boundary, oauthCache, peer>>

\* step 6: response schema validation, then audit save and return
ValidateResponse ==
    /\ pc = "validateResp"
    /\ IF cfg.responseSchema.present /\ ~SchemaAccepts(cfg.responseSchema, finalResponse)
       THEN /\ Raise(ResponseContractError, "VALIDATE_RESPONSE")
            /\ stages' = Append(stages, "VALIDATE_RESPONSE")
            /\ UNCHANGED <<outcome, auditLog>>
       ELSE \E saved \in SaveResults(cfg.auditRepo) :
            /\ auditLog' = Append(auditLog, AuditRecord(200, ""))
            /\ IF saved
               THEN /\ outcome' = [kind |-> "returned", value |-> finalResponse,
                                   error |-> NoError]
                    /\ stages' = stages \o <<"VALIDATE_RESPONSE", "DONE">>
                    /\ pc' = "done"
                    /\ UNCHANGED <<err, failedAt>>
               \* the awaited save stands inside the try block
               ELSE /\ Raise(AuditSaveError, "AUDIT")
                    /\ stages' = Append(stages, "VALIDATE_RESPONSE")
                    /\ UNCHANGED outcome
    /\ UNCHANGED <<cfg, stepIdx, sharedContext, call, attempts, targetResponse,
                   finalResponse, stepResults, net, tokenCache, now, invocations, authLog>>
    /\ UNCHANGED <<boundary, oauthCache, peer>>

\* axiosError.response?.status || 500
AuditStatus(e) == IF e.hasResponse /\ e.status # 0 THEN e.status ELSE 500
\* (axiosError.response?.data) || {}
ErrorBody(e) == IF Truthy(e.data) THEN e.data ELSE EmptyObj
\* the {message, status} written into an errorSource without keys
Synthesized(e) ==
    Obj([message |-> Str(IF e.message # "" THEN e.message ELSE "Unknown Error"),
         status |-> IF e.hasResponse /\ e.status # 0 THEN Num(e.status) ELSE Str("UNKNOWN")])
\* return transformedError, unless the transform itself throws
Mapped(errorSource, errorMapping) ==
    IF transform(errorSource, errorMapping) = Thrown
    THEN [kind |-> "thrown", value |-> Undef, error |-> SetValueError]
    ELSE [kind |-> "mapped", value |-> transform(errorSource, errorMapping),
          error |-> NoError]
\* variant: errorMapping is applied only to failures from authentication onward
CatchOutcome_FromAuthOn(e, errorMapping) ==
    IF errorMapping # NoSpec
       /\ failedAt \notin {"VALIDATE_REQUEST", "RESOLVE_PARAMS", "TRANSFORM_REQUEST"}
    THEN IF NoKeys(ErrorBody(e))
         THEN IF IsObject(ErrorBody(e))
              THEN Mapped(Synthesized(e), errorMapping)
              ELSE [kind |-> "thrown", value |-> Undef, error |-> PrimitiveAssignError]
         ELSE Mapped(ErrorBody(e), errorMapping)
    ELSE [kind |-> "thrown", value |-> Undef, error |-> e]

\* what the catch block hands to the caller
CatchOutcome(e, errorMapping) ==
    IF errorMapping # NoSpec
    THEN IF NoKeys(ErrorBody(e))
         THEN IF IsObject(ErrorBody(e))
              THEN Mapped(Synthesized(e), errorMapping)
              \* a property assignment on a primitive throws in strict mode
              ELSE [kind |-> "thrown", value |-> Undef, error |-> PrimitiveAssignError]
         ELSE Mapped(ErrorBody(e), errorMapping)
    ELSE [kind |-> "thrown", value |-> Undef, error |-> e]

\* the catch block of execute
Catch ==
    /\ pc = "catch"
    /\ stages' = Append(stages, "ERROR")
    /\ auditLog' = Append(auditLog, AuditRecord(AuditStatus(err), err.message))
    /\ \E saved \in SaveResults(cfg.auditRepo) :
          outcome' = IF saved THEN CatchOutcome(err, cfg.errorMapping)
                     \* a rejected save leaves the catch block as an exception
                     ELSE [kind |-> "thrown", value |-> Undef, error |-> AuditSaveError]
    /\ pc' = "done"
    /\ UNCHANGED <<cfg, stepIdx, sharedContext, call, attempts, targetResponse,
                   finalResponse, stepResults, net, err, failedAt, tokenCache, now,
                   invocations, authLog>>
    /\ UNCHANGED <<boundary, oauthCache, peer>>

(***************************************************************************)
(* The clock                                                               *)
(***************************************************************************)
\* Date.now() moves on: while a login call is outstanding, and between
\* invocations up to the instants around the expiry of a cached token
TickTargets ==
    (IF pc \in {"login", "oauth"} /\ authLog[Len(authLog)].at = now
     THEN {now + LoginLatencyMs} ELSE {})
    \cup
    (IF pc \in {"idle", "done"}
     THEN UNION {{tokenCache[k].expiresAt - 1, tokenCache[k].expiresAt} : k \in DOMAIN tokenCache}
          \cup UNION {{oauthCache[k].expiresAt - 1, oauthCache[k].expiresAt} :
                         k \in DOMAIN oauthCache}
     ELSE {})
Tick ==
    /\ \E t \in TickTargets :
         /\ t > now
         /\ t <= MaxClock
         /\ now' = t
    /\ UNCHANGED <<cfg, pc, stepIdx, sharedContext, call, attempts, targetResponse,
                   finalResponse, stepResults, net, stages, err, failedAt, outcome,
                   auditLog, tokenCache, invocations, authLog>>
    /\ UNCHANGED <<boundary, oauthCache, peer>>

(***************************************************************************)
(* Inputs: the mappings, payloads and contexts that are executed           *)
(***************************************************************************)
PayloadId == One("id", Num(1))
PayloadUser == One("userInfo", One("id", Num(9)))
ErrorMappings == {NoSpec, ObjectSpec(<<MessageRule, ErrorRule>>)}
Schemas == {NoSchema, RequireId}
RetryOptions == {NoResilience} \cup {Resilience(n) : n \in 0..MaxRetry}
OverrideContext ==
    [present |-> TRUE, method |-> "PUT", queryParams |-> One("page", Str("2")),
     headers |-> [h \in {"X-Trace"} |-> "t1"]]

\* payload and request schema: accepted, rejected, and no schema at all
Requests ==
    { [payload |-> PayloadId, requestSchema |-> NoSchema],
      [payload |-> PayloadId, requestSchema |-> RequireId],
      [payload |-> PayloadUser, requestSchema |-> RequireId],
      [payload |-> Undef, requestSchema |-> NoSchema] }

\* single-call mappings: contracts, error mapping, auth and retry budget
ContractConfigs ==
    { [NoConfig EXCEPT !.payload = rq.payload, !.requestSchema = rq.requestSchema,
                       !.responseSchema = rs, !.errorMapping = em, !.authConfig = au,
                       !.targetApi = TargetApi("https://api/items", "POST", FALSE, rt)] :
        rq \in Requests, rs \in Schemas, em \in ErrorMappings,
        au \in {NoAuth, BasicAuth, BearerDynamic, OAuth2Auth}, rt \in RetryOptions }

\* { "type": "DIRECT" }: a spec without mappings and defaults
DirectSpec == [type |-> "DIRECT", mappings |-> << >>, defaults |-> << >>]
\* single-call mappings: dynamic parameters, request and response mappings
ShapeConfigs ==
    { [NoConfig EXCEPT !.payload = p,
                       !.targetApi = TargetApi("https://api/items/:id", "POST", d, NoResilience),
                       !.requestMapping = rm, !.responseMapping = pm, !.context = cx] :
        p \in {PayloadId, PayloadUser, Undef}, d \in BOOLEAN,
        rm \in {NoSpec, ObjectSpec(<<IdRule>>)},
        pm \in {NoSpec, ObjectSpec(<<IdRule>>), DirectSpec},
        cx \in {NoContext, OverrideContext,
                 \* call-time parameters: q overrides the default, page is a path
                 [NoContext EXCEPT !.present = TRUE,
                                   !.queryParams =
                                       Obj([k \in {"q", "page", "lang"} |->
                                               CASE k = "q" -> Str("z")
                                                 [] k = "page" -> Path(<<"id">>)
                                                 [] OTHER -> Path(<<"locale">>)])]} }

\* workflow steps
StepOption(i) ==
    CASE i = 0 -> [rm |-> NoSpec, pm |-> NoSpec, save |-> "", dyn |-> FALSE]
      [] i = 1 -> [rm |-> NoSpec, pm |-> ObjectSpec(<<IdRule>>), save |-> "userInfo",
                   dyn |-> FALSE]
      [] OTHER -> [rm |-> ObjectSpec(<<UidRule>>), pm |-> NoSpec, save |-> "userInfo",
                   dyn |-> TRUE]
StepOptions == {StepOption(i) : i \in 0..2}
\* every workflow of one or two steps; longer ones take the options in rotation
StepShapesOfLength(n) ==
    IF n <= 2 THEN [1..n -> StepOptions]
    ELSE {[i \in 1..n |-> StepOption((first + i) % 3)] : first \in 0..2}
StepShapes == UNION {StepShapesOfLength(n) : n \in 1..MaxSteps}
StepsOf(shape, res) ==
    [i \in DOMAIN shape |->
        Step(NumStr(i),
             IF shape[i].dyn
             THEN DynamicApi("https://api/step/" \o NumStr(i) \o "/:id", "POST",
                             <<"userInfo", "id">>, res)
             ELSE TargetApi("https://api/step/" \o NumStr(i), "POST", FALSE, res),
             shape[i].rm, shape[i].pm, shape[i].save)]
WorkflowRequests ==
    { [payload |-> PayloadUser, requestSchema |-> NoSchema],
      [payload |-> PayloadUser, requestSchema |-> RequireId] }
WorkflowVariants ==
    { [auth |-> NoAuth, res |-> NoResilience],
      [auth |-> NoAuth, res |-> Resilience(1)],
      [auth |-> BearerDynamic, res |-> NoResilience] }
WorkflowConfigs ==
    { [NoConfig EXCEPT !.payload = rq.payload, !.requestSchema = rq.requestSchema,
                       !.responseSchema = rs, !.errorMapping = em,
                       !.authConfig = v.auth,
                       !.targetApi = TargetApi("https://api/top", "GET", FALSE, NoResilience),
                       !.steps = StepsOf(sh, v.res)] :
        rq \in WorkflowRequests, rs \in Schemas, em \in ErrorMappings,
        v \in WorkflowVariants, sh \in StepShapes }

\* a spec-level default below a field that a rule has set to a number
CollidingSpec == ObjectSpecWithDefaults(<<IdRule>>, << <<(<<"id", "unit">>), Str("pcs")>> >>)
CollisionConfigs ==
    { [NoConfig EXCEPT !.payload = PayloadId, !.errorMapping = em,
                       !.targetApi = TargetApi("https://api/items", "POST", FALSE, NoResilience),
                       !.requestMapping = m.rm, !.responseMapping = m.pm] :
        em \in ErrorMappings,
        m \in { [rm |-> CollidingSpec, pm |-> NoSpec], [rm |-> NoSpec, pm |-> CollidingSpec] } }

\* sources and specs of every spec type for the request transform: rules
\* marked required, array roots of each kind, scripts that return and raise
TransformConfigs ==
    LET TransformSources ==
            { PayloadId, Undef,
              Obj([k \in {"id", "items"} |->
                      IF k = "id" THEN Num(1)
                      ELSE Arr(<<One("value", Num(1)), One("value", Num(2))>>)]),
              One("items", Arr(<<One("value", Num(2)), Num(7), One("value", Num(1))>>)),
              One("items", Arr(<< >>)),
              One("items", One("value", Num(1))),
              One("items", Num(5)),
              One("items", [t |-> "null"]),
              Obj([k \in {"user", "name"} |->
                      IF k = "user" THEN One("id", Num(1)) ELSE Str("x")]) }
        TransformSpecs ==
            LET NameRequired == Rule(<<"name">>, <<"name">>, Undef, TRUE)
                CopyRule == Rule(<<"id">>, <<"copy">>, Undef, FALSE)
                ValueRule == Rule(<<"value">>, <<"v">>, Undef, FALSE)
                UnitDefault == << <<(<<"v", "unit">>), Str("pcs")>> >>
                ArraySpec(rules, defaults, wrapper) ==
                    [type |-> "ARRAY", root |-> <<"items">>, mappings |-> rules,
                     defaults |-> defaults, outputWrapper |-> wrapper]
                CustomSpec(rules, logic) ==
                    [type |-> "CUSTOM", mappings |-> rules, defaults |-> << >>, logic |-> logic]
                Scripts ==
                    { [kind |-> "value"], [kind |-> "field", key |-> "id"], [kind |-> "none"],
                      [kind |-> "throw", message |-> "boom"], [kind |-> "throw", message |-> ""],
                      [kind |-> "syntax", message |-> "Unexpected token"] }
            IN { ObjectSpec(<<IdRule, NameRequired, CopyRule>>),
                 ObjectSpec(<<NameRequired, IdRule>>),
                 ObjectSpec(<<NameRequired>>),
                 ObjectSpec(<<Rule(<<"name">>, <<"name">>, Str("anon"), TRUE), CopyRule>>),
                 ObjectSpec(<<Rule(<<"id">>, <<"id">>, Undef, TRUE), NameRequired>>),
                 ObjectSpecWithDefaults(<<NameRequired, IdRule>>,
                                        << <<(<<"id", "unit">>), Str("pcs")>> >>),
                 ObjectSpec(<<Rule(<<"user">>, <<"u">>, Undef, FALSE),
                              Rule(<<"name">>, <<"u", "name">>, Undef, FALSE)>>),
                 ArraySpec(<<ValueRule>>, << >>, << >>),
                 ArraySpec(<<ValueRule>>, << >>, <<"data">>),
                 ArraySpec(<<NameRequired, ValueRule>>, << >>, <<"data", "list">>),
                 ArraySpec(<<ValueRule>>, UnitDefault, << >>),
                 [type |-> "ARRAY", mappings |-> <<ValueRule>>, defaults |-> << >>,
                  outputWrapper |-> << >>] }
               \cup {CustomSpec(<<IdRule>>, sc) : sc \in Scripts}
               \cup {CustomSpec(<< >>, sc) : sc \in {[kind |-> "field", key |-> "id"]}}
               \cup {[type |-> "CUSTOM", mappings |-> <<IdRule>>, defaults |-> << >>]}
        \* a source with a falsy value of every kind, and no source at all
        RuleSources ==
            { Obj([k \in {"id", "status", "count", "empty", "nothing", "off"} |->
                      CASE k = "id" -> Num(1)
                        [] k = "status" -> Str("active")
                        [] k = "count" -> Num(0)
                        [] k = "empty" -> Str("")
                        [] k = "nothing" -> [t |-> "null"]
                        [] OTHER -> [t |-> "bool", b |-> FALSE]]),
              Undef }
        Conditions ==
            { [path |-> <<"status">>, equals |-> TRUE, literal |-> "active"],
              [path |-> <<"status">>, equals |-> TRUE, literal |-> "closed"],
              [path |-> <<"count">>, equals |-> TRUE, literal |-> "0"],
              [path |-> <<"off">>, equals |-> TRUE, literal |-> "false"],
              [path |-> <<"nothing">>, equals |-> TRUE, literal |-> "null"],
              [path |-> <<"missing">>, equals |-> TRUE, literal |-> "undefined"],
              [path |-> <<"id">>, equals |-> FALSE, literal |-> ""],
              [path |-> <<"count">>, equals |-> FALSE, literal |-> ""],
              [path |-> <<"missing">>, equals |-> FALSE, literal |-> ""] }
        \* an optional field of a rule: present with a value, or not there
        Optional(name, values) == {EmptyFn} \cup {name :> v : v \in values}
        \* one rule: every condition or none, valueIfTrue and valueIfFalse
        \* given or not, a source that is anything or missing, a default or none
        RuleSpecs ==
            { ObjectSpec(<<Rule(<<src>>, <<"out">>, def, FALSE) @@ c @@ vt @@ vf>>) :
                src \in {"id", "count", "empty", "nothing", "off", "missing"},
                def \in {Undef, Str("dflt")},
                c \in Optional("condition", Conditions),
                vt \in Optional("valueIfTrue", {Str("yes")}),
                vf \in Optional("valueIfFalse", {Num(0)}) }
        \* several rules with one target, and spec-level defaults
        OrderSpecs ==
            LET To(src, tgt) == Rule(<<src>>, tgt, Undef, FALSE)
                Closed == [path |-> <<"status">>, equals |-> TRUE, literal |-> "closed"]
                D(path) == <<path, Str("d")>>
            IN { ObjectSpecWithDefaults(<<To("id", <<"x">>), To("status", <<"x">>)>>,
                                        <<D(<<"x">>), D(<<"y">>)>>),
                 ObjectSpecWithDefaults(<<To("status", <<"x">>), To("missing", <<"x">>)>>,
                                        <<D(<<"x">>)>>),
                 ObjectSpecWithDefaults(
                     <<To("id", <<"x">>), To("status", <<"x">>) @@ ("condition" :> Closed),
                       To("nothing", <<"z">>)>>,
                     <<D(<<"z">>), D(<<"x">>)>>),
                 ObjectSpecWithDefaults(<<To("missing", <<"x">>)>>, <<D(<<"x">>)>>),
                 ObjectSpecWithDefaults(<<To("count", <<"x">>), To("id", <<"y">>)>>,
                                        <<D(<<"x">>)>>),
                 ObjectSpecWithDefaults(<<To("id", <<"a", "b">>), To("status", <<"a", "b">>)>>,
                                        <<D(<<"a", "c">>)>>),
                 ObjectSpec(<<To("id", <<"x">>),
                              Rule(<<"missing">>, <<"x">>, Str("dflt"), FALSE)>>),
                 ObjectSpec(<<To("id", <<"x">>), To("empty", <<"x">>)>>) }
    IN
    { [NoConfig EXCEPT !.payload = p, !.requestMapping = rm,
                       !.targetApi = TargetApi("https://api/items", method, FALSE,
                                               NoResilience)] :
        p \in TransformSources, rm \in TransformSpecs, method \in {"POST", "GET"} }
    \cup
    { [NoConfig EXCEPT !.payload = p, !.requestMapping = rm,
                       !.targetApi = TargetApi("https://api/items", "POST", FALSE,
                                               NoResilience)] :
        p \in RuleSources, rm \in RuleSpecs \cup OrderSpecs }

MappingConfigs ==
    ContractConfigs \cup ShapeConfigs \cup WorkflowConfigs \cup CollisionConfigs
        \cup TransformConfigs

\* mappings with a dynamic bearer login (tokenUrl only)
BearerConfigs ==
    { [NoConfig EXCEPT !.payload = PayloadId, !.authConfig = BearerDynamic,
                       !.targetApi = TargetApi("https://api/items", "GET", FALSE, NoResilience)] }

\* stored auth configs of one type: every subset of the keys its provider
\* looks at, under a name that spells the subset
StoredAuthConfigs ==
    LET AuthVariants(type, keys) ==
            { [name |-> type \o ":" \o (IF b[1] THEN keys[1] ELSE "") \o ","
                           \o (IF b[2] THEN keys[2] ELSE "") \o ","
                           \o (IF Len(keys) > 2 /\ b[3] THEN keys[3] ELSE ""),
               auth |-> AuthConfig(type,
                          [k \in {keys[i] : i \in {j \in 1..Len(keys) : b[j]}} |->
                              IF k = "tokenUrl" THEN "https://login" ELSE k \o "1"])] :
                b \in [1..Len(keys) -> BOOLEAN] }
    IN
    AuthVariants("BASIC", <<"username", "password">>)
    \cup AuthVariants("API_KEY", <<"keyName", "keyValue">>)
    \cup AuthVariants("BEARER_TOKEN", <<"token", "tokenUrl", "loginPayload">>)
    \cup AuthVariants("OAUTH2_CLIENT_CREDENTIALS", <<"tokenUrl", "clientId", "clientSecret">>)
    \cup AuthVariants("JWT", <<"issuer", "audience", "privateKeyRef">>)
    \cup { [name |-> "custom", auth |-> [AuthConfig("CUSTOM", [headers |-> "object"])
                                           EXCEPT !.headers = [h \in {"X-Custom"} |-> "c1"]]],
           [name |-> "custom-bare", auth |-> AuthConfig("CUSTOM", [k \in {} |-> ""])],
           [name |-> "none", auth |-> AuthConfig("NONE", [k \in {} |-> ""])],
           [name |-> "absent", auth |-> NoAuth],
           [name |-> "untyped", auth |-> AuthConfig("", [username |-> "u", password |-> "p"])],
           [name |-> "lower", auth |-> AuthConfig("basic", [username |-> "u"])],
           [name |-> "mixed", auth |-> AuthConfig("Bearer_Token", [token |-> "t0"])],
           [name |-> "kerberos", auth |-> AuthConfig("KERBEROS", [k \in {} |-> ""])],
           [name |-> "blank", auth |-> AuthConfig("BASIC", [username |-> "", password |-> "p"])],
           [name |-> "query-key",
            auth |-> AuthConfig("API_KEY", [keyName |-> "api_key", keyValue |-> "k1",
                                            location |-> "QUERY"])] }
\* the registry: complete mappings, one with an errorMapping, a workflow of
\* two steps whose targets differ from the top-level one in url, method and
\* query parameters, and a mapping that was stored without targetApi
StoredMappings ==
    { [name |-> a.name, hasTargetApi |-> TRUE,
       mappingConfig |->
           [NoConfig EXCEPT !.authConfig = a.auth,
                            !.targetApi = TargetApi("https://api/items", "GET", FALSE,
                                                    NoResilience)]] :
        a \in StoredAuthConfigs }
    \cup { [name |-> "mapped", hasTargetApi |-> TRUE,
            mappingConfig |->
                [NoConfig EXCEPT !.errorMapping = ObjectSpec(<<MessageRule, ErrorRule>>),
                                 !.targetApi = TargetApi("https://api/items", "GET", FALSE,
                                                         NoResilience)]],
           [name |-> "audited", hasTargetApi |-> TRUE,
            mappingConfig |->
                [NoConfig EXCEPT !.auditRepo = "typeorm",
                                 !.targetApi = TargetApi("https://api/items", "GET", FALSE,
                                                         NoResilience)]],
           [name |-> "audited-mapped", hasTargetApi |-> TRUE,
            mappingConfig |->
                [NoConfig EXCEPT !.auditRepo = "typeorm",
                                 !.errorMapping = ObjectSpec(<<MessageRule, ErrorRule>>),
                                 !.targetApi = TargetApi("https://api/items", "GET", FALSE,
                                                         NoResilience)]],
           [name |-> "poster", hasTargetApi |-> TRUE,
            mappingConfig |->
                [NoConfig EXCEPT !.targetApi = TargetApi("https://api/items", "POST", FALSE,
                                                         NoResilience)]],
           [name |-> "workflow", hasTargetApi |-> TRUE,
            mappingConfig |->
                [NoConfig EXCEPT !.authConfig = AuthConfig("BEARER_TOKEN", [token |-> "t0"]),
                                 !.targetApi = TargetApi("https://api/top", "GET", TRUE,
                                                         NoResilience),
                                 !.steps =
                                     <<Step("s1", TargetApi("https://api/step/1", "POST", FALSE,
                                                            Resilience(1)),
                                            NoSpec, NoSpec, "first"),
                                       Step("s2", TargetApi("https://api/step/2", "GET", FALSE,
                                                            NoResilience),
                                            NoSpec, NoSpec, "")>>]],
           [name |-> "no-target", hasTargetApi |-> FALSE, mappingConfig |-> NoConfig] }
\* request bodies: any stored name, an unknown name or none; a method field
\* sent by the client or none; an authType and an authConfig override
\* (nested under config, or flat) or neither; headerData absent or carrying
\* the caller's own Authorization header and a trace header
BoundaryRequests ==
    { [connectorKey |-> k, method |-> cm, authType |-> t, authConfig |-> ac,
       payload |-> PayloadId, queryParams |-> Undef, headerData |-> hd] :
        k \in {m.name : m \in StoredMappings} \cup {"", "ghost"},
        hd \in { [h \in {} |-> ""],
                 [h \in {"Authorization", "X-Trace"} |->
                     IF h = "Authorization" THEN "Bearer incoming" ELSE "abc"] },
        cm \in {"", "DELETE"},
        t \in {""} \cup {a.auth.authType : a \in StoredAuthConfigs},
        ac \in { [present |-> FALSE, nested |-> FALSE, authType |-> "",
                  fields |-> [f \in {} |-> ""]],
                 [present |-> TRUE, nested |-> TRUE, authType |-> "",
                  fields |-> [f \in {"password"} |-> "p2"]],
                 [present |-> TRUE, nested |-> FALSE, authType |-> "BASIC",
                  fields |-> [f \in {"username"} |-> "u2"]],
                 [present |-> TRUE, nested |-> FALSE, authType |-> "BEARER_TOKEN",
                  fields |-> [f \in {"tokenUrl"} |-> ""]] } }

\* mappings that authenticate with OAUTH2_CLIENT_CREDENTIALS
OAuthConfigs ==
    { [NoConfig EXCEPT !.payload = PayloadId, !.authConfig = OAuth2Auth,
                       !.targetApi = TargetApi("https://api/items", "GET", FALSE, NoResilience)] }

(***************************************************************************)
(* The boundary: CorrectorController.executeCorrection                     *)
(***************************************************************************)
\* variant: an error with a remote response is reported as an internal one
ErrorEnvelope_RemoteAsInternal(error) ==
    IF "http" \in DOMAIN error
    THEN [success |-> FALSE, statusCode |-> error.status, errorType |-> "FRAMEWORK_ERROR",
          message |-> error.message]
    ELSE [success |-> FALSE, statusCode |-> 500, errorType |-> "INTERNAL_CORRECTOR_ERROR",
          message |-> IF error.message = "" THEN "Unknown internal error"
                      ELSE error.message]
\* the catch block of executeCorrection: the envelope returned for an error
ErrorEnvelope(error) ==
    IF "http" \in DOMAIN error
    THEN [success |-> FALSE, statusCode |-> error.status, errorType |-> "FRAMEWORK_ERROR",
          message |-> error.message]
    ELSE IF error.hasResponse
    THEN [success |-> FALSE, statusCode |-> IF error.status = 0 THEN 500 ELSE error.status,
          errorType |-> "TARGET_API_ERROR", targetResponse |-> error.data]
    ELSE [success |-> FALSE, statusCode |-> 500, errorType |-> "INTERNAL_CORRECTOR_ERROR",
          message |-> IF error.message = "" THEN "Unknown internal error"
                      ELSE error.message]

\* MappingRegistryService.findByIdOrName over the stored mappings
findByIdOrName(idOrName) ==
    IF \E m \in StoredMappings : m.name = idOrName
    THEN [found |-> TRUE, mapping |-> CHOOSE m \in StoredMappings : m.name = idOrName]
    ELSE [found |-> FALSE, mapping |-> NoBoundary.stored]

\* the request arrives: connectorKey check, registry look-up, mapping check
ReceiveRequest ==
    /\ boundary.phase = "idle"
    /\ \E r \in BoundaryRequests :
         LET look == findByIdOrName(r.connectorKey)
             \* a Nest HttpException: getStatus() and getResponse().message
             HttpError(status, message) ==
                 [message |-> message, hasResponse |-> FALSE, status |-> status,
                  data |-> Undef, http |-> TRUE]
             caught(e, tr) ==
                 [boundary EXCEPT !.phase = "responded", !.request = r, !.trace = tr,
                                  !.envelope = ErrorEnvelope(e)]
         IN boundary' =
              IF r.connectorKey = ""
              THEN caught(HttpError(400, "connectorKey is required"), << >>)
              ELSE IF ~look.found
              THEN caught(HttpError(404, "Mapping with ID or Name '" \o r.connectorKey
                                             \o "' not found"), <<"LOOKUP">>)
              ELSE IF ~look.mapping.hasTargetApi
              THEN caught(HttpError(400, "Invalid mapping configuration for: "
                                             \o r.connectorKey), <<"LOOKUP">>)
              ELSE [boundary EXCEPT !.phase = "found", !.request = r,
                                    !.stored = look.mapping, !.trace = <<"LOOKUP">>]
    /\ UNCHANGED <<cfg, pc, stepIdx, sharedContext, call, attempts, targetResponse,
                   finalResponse, stepResults, net, stages, err, failedAt, outcome,
                   auditLog, tokenCache, now, invocations, authLog, oauthCache, peer>>

\* variant: any request auth type is let through
AuthMismatch_Never(storedType, incomingAuthType) == FALSE
\* authConfig?.authType !== 'NONE' && effectiveAuth?.authType !== incomingAuthType
AuthMismatch(storedType, incomingAuthType) ==
    storedType # "NONE" /\ storedType # incomingAuthType
\* variant: what validate throws is ignored
ValidationFails_Never(effectiveAuth, message) == FALSE
\* if (effectiveAuth) { try { ...validate(effectiveAuth) } catch { return ... } }
ValidationFails(effectiveAuth, message) == effectiveAuth.present /\ message # ""

\* variant: the auth type named by the request is taken when there is one
ResolvedAuthType_FromRequest(storedType, incomingAuthType) ==
    IF incomingAuthType # "" THEN incomingAuthType
    ELSE IF storedType # "" THEN storedType ELSE "NONE"
\* resolvedAuthType = effectiveAuth?.authType || 'NONE': the request's
\* authType is not consulted
ResolvedAuthType(storedType, incomingAuthType) ==
    IF storedType # "" THEN storedType ELSE "NONE"

\* step 2 of executeCorrection: the mismatch policy, the merge of the stored
\* auth config with the request's overrides, and the provider's validate
AuthorizeRequest ==
    /\ boundary.phase = "found"
    /\ boundary' =
           LET b == boundary
               r == b.request
               stored == b.stored.mappingConfig.authConfig
               storedType == IF stored.present THEN stored.authType ELSE ""
               incomingAuthType ==
                   IF r.authType # "" THEN r.authType
                   ELSE IF r.authConfig.present THEN r.authConfig.authType ELSE ""
               \* authConfig?.config || authConfig || {}
               overrides ==
                   IF r.authConfig.present /\ ~r.authConfig.nested /\ r.authConfig.authType # ""
                   THEN [k \in DOMAIN r.authConfig.fields \cup {"authType"} |->
                            IF k = "authType" THEN r.authConfig.authType
                            ELSE r.authConfig.fields[k]]
                   ELSE r.authConfig.fields
               spread == [k \in DOMAIN stored.config \cup DOMAIN overrides |->
                            IF k \in DOMAIN overrides THEN overrides[k] ELSE stored.config[k]]
               \* delete config.authType when it is truthy
               merged == [k \in {x \in DOMAIN spread : x # "authType" \/ spread[x] = ""} |->
                            spread[k]]
               effectiveAuth ==
                   IF r.authType # "" \/ r.authConfig.present
                   THEN [present |-> TRUE,
                         authType |-> ResolvedAuthType(storedType, incomingAuthType),
                         config |-> merged, headers |-> stored.headers]
                   ELSE stored
               typed == effectiveAuth.authType # ""
               message ==
                   IF ~typed THEN "Cannot read properties of undefined (reading 'toUpperCase')"
                   ELSE validate(getProvider(effectiveAuth.authType), effectiveAuth)
               checked == b.trace \o <<"POLICY">>
                             \o (IF effectiveAuth.present THEN <<"GET_PROVIDER">> ELSE << >>)
                             \o (IF effectiveAuth.present /\ typed THEN <<"VALIDATE">> ELSE << >>)
           IN IF AuthMismatch(storedType, incomingAuthType)
              THEN [b EXCEPT !.phase = "responded", !.trace = b.trace \o <<"POLICY">>,
                             !.envelope =
                                 [success |-> FALSE, statusCode |-> 400,
                                  errorType |-> "AUTH_MISMATCH",
                                  message |-> "Authentication type mismatch for connector: "
                                                 \o r.connectorKey]]
              ELSE IF ValidationFails(effectiveAuth, message)
              THEN [b EXCEPT !.phase = "responded", !.trace = checked,
                             !.effectiveAuth = effectiveAuth, !.validation = message,
                             !.envelope =
                                 [success |-> FALSE, statusCode |-> 400,
                                  errorType |-> "AUTH_VALIDATION_FAILED",
                                  message |-> "Authentication Validation Failed: " \o message]]
              ELSE [b EXCEPT !.phase = "authorized", !.trace = checked,
                             !.effectiveAuth = effectiveAuth,
                             !.validation = IF effectiveAuth.present THEN message ELSE ""]
    /\ UNCHANGED <<cfg, pc, stepIdx, sharedContext, call, attempts, targetResponse,
                   finalResponse, stepResults, net, stages, err, failedAt, outcome,
                   auditLog, tokenCache, now, invocations, authLog, oauthCache, peer>>

\* variant: a method sent by the client takes precedence
ContextMethod_FromClient(request, mergedConfig) ==
    IF request.method # "" THEN request.method ELSE mergedConfig.targetApi.method
\* context.method = mergedConfig.targetApi.method: the request is not consulted
ContextMethod(request, mergedConfig) == mergedConfig.targetApi.method

\* steps 3 and 4: the execution context is built and the engine is called
\* with the stored mapping and the effective auth config
CallEngine ==
    /\ boundary.phase = "authorized"
    /\ Begin([boundary.stored.mappingConfig EXCEPT
                 !.authConfig = boundary.effectiveAuth,
                 !.payload = boundary.request.payload,
                 !.context = [present |-> TRUE,
                              method |-> ContextMethod(boundary.request,
                                                       boundary.stored.mappingConfig),
                              queryParams |->
                                  Spread(boundary.stored.mappingConfig.targetApi.queryParams,
                                         boundary.request.queryParams),
                              headers |-> boundary.request.headerData]])
    /\ boundary' = [boundary EXCEPT !.phase = "engine", !.trace = Append(@, "ENGINE")]
    /\ UNCHANGED <<oauthCache, peer>>

\* the engine has returned or thrown: success envelope, or the catch block
Respond ==
    /\ boundary.phase = "engine"
    /\ pc = "done"
    /\ boundary' =
          [boundary EXCEPT
             !.phase = "responded", !.trace = Append(@, "RESPOND"),
             !.envelope = IF outcome.kind = "thrown" THEN ErrorEnvelope(outcome.error)
                          ELSE [success |-> TRUE, statusCode |-> 200,
                                data |-> outcome.value]]
    /\ UNCHANGED <<cfg, pc, stepIdx, sharedContext, call, attempts, targetResponse,
                   finalResponse, stepResults, net, stages, err, failedAt, outcome,
                   auditLog, tokenCache, now, invocations, authLog, oauthCache, peer>>

(***************************************************************************)
(* Specifications                                                          *)
(***************************************************************************)
Init ==
    /\ cfg = NoConfig
    /\ pc = "idle"
    /\ stepIdx = 0
    /\ sharedContext = EmptyObj
    /\ call = NoCall
    /\ attempts = 0
    /\ targetResponse = Undef
    /\ finalResponse = Undef
    /\ stepResults = << >>
    /\ net = << >>
    /\ stages = << >>
    /\ err = NoError
    /\ failedAt = ""
    /\ outcome = NoOutcome
    /\ auditLog = << >>
    /\ tokenCache = NoTokens
    /\ now = 0
    /\ invocations = 0
    /\ authLog = << >>
    /\ oauthCache = NoTokens
    /\ boundary = NoBoundary
    /\ peer = [cfg |-> NoConfig, pc |-> "idle", stepIdx |-> 0, sharedContext |-> EmptyObj,
               call |-> NoCall, attempts |-> 0, targetResponse |-> Undef,
               finalResponse |-> Undef, stepResults |-> << >>, net |-> << >>,
               stages |-> << >>, err |-> NoError, failedAt |-> "",
               outcome |-> NoOutcome, auditLog |-> << >>]

\* one invocation of execute on any of the mappings
Start ==
    /\ pc = "idle"
    /\ \E c \in MappingConfigs : Begin(c)
    /\ UNCHANGED <<boundary, oauthCache, peer>>

\* successive invocations of execute on a dynamic-bearer mapping
StartBearer ==
    /\ pc \in {"idle", "done"}
    /\ invocations < MaxInvocations
    /\ \E c \in BearerConfigs : Begin(c)
    /\ UNCHANGED <<boundary, oauthCache, peer>>

\* successive invocations of execute on an OAuth2 mapping
StartOAuth ==
    /\ pc \in {"idle", "done"}
    /\ invocations < MaxInvocations
    /\ \E c \in OAuthConfigs : Begin(c)
    /\ UNCHANGED <<boundary, oauthCache, peer>>

Next ==
    \/ Start
    \/ ValidateRequest
    \/ ResolveParams
    \/ TransformRequest
    \/ Authenticate
    \/ LoginRespond
    \/ OAuthRespond
    \/ Invoke
    \/ RetryDelay
    \/ TransformResponse
    \/ ValidateResponse
    \/ Catch

Spec == Init /\ [][Next]_vars

NextBearer ==
    \/ StartBearer
    \/ Tick
    \/ ValidateRequest
    \/ ResolveParams
    \/ TransformRequest
    \/ Authenticate
    \/ LoginRespond
    \/ Invoke
    \/ TransformResponse
    \/ ValidateResponse
    \/ Catch

SpecBearer == Init /\ [][NextBearer]_vars

NextOAuth ==
    \/ StartOAuth
    \/ Tick
    \/ ValidateRequest
    \/ ResolveParams
    \/ TransformRequest
    \/ Authenticate
    \/ OAuthRespond
    \/ Invoke
    \/ TransformResponse
    \/ ValidateResponse
    \/ Catch

SpecOAuth == Init /\ [][NextOAuth]_vars

NextBoundary ==
    \/ ReceiveRequest
    \/ AuthorizeRequest
    \/ CallEngine
    \/ Respond
    \/ ValidateRequest
    \/ ResolveParams
    \/ TransformRequest
    \/ Authenticate
    \/ LoginRespond
    \/ OAuthRespond
    \/ Invoke
    \/ TransformResponse
    \/ ValidateResponse
    \/ Catch

SpecBoundary == Init /\ [][NextBoundary]_vars

\* mappings whose invocations run side by side: two dynamic-bearer mappings
\* with one tokenUrl and different login payloads, the second with a context
\* of its own, a third one that also names a clientId, and a workflow of two
\* steps without authentication
ConcurrentConfigs ==
    LET Login(who) ==
            AuthConfig("BEARER_TOKEN", [tokenUrl |-> "https://login", loginPayload |-> who])
    IN { [NoConfig EXCEPT !.payload = PayloadId, !.authConfig = Login("alice"),
                          !.targetApi = TargetApi("https://api/items", "GET", FALSE,
                                                  NoResilience)],
         [NoConfig EXCEPT !.payload = One("id", Num(2)), !.authConfig = Login("bob"),
                          !.targetApi = TargetApi("https://api/orders", "POST", TRUE,
                                                  NoResilience),
                          !.context = [NoContext EXCEPT
                                          !.present = TRUE,
                                          !.queryParams = One("page", Str("2")),
                                          !.headers = [h \in {"X-Trace"} |-> "abc"]]],
         [NoConfig EXCEPT !.payload = One("id", Num(3)),
                          !.authConfig =
                              AuthConfig("BEARER_TOKEN",
                                         [tokenUrl |-> "https://login", clientId |-> "c1",
                                          loginPayload |-> "carol"]),
                          !.targetApi = TargetApi("https://api/items", "GET", FALSE,
                                                  NoResilience)],
         [NoConfig EXCEPT !.payload = PayloadUser,
                          !.targetApi = TargetApi("https://api/top", "GET", FALSE,
                                                  NoResilience),
                          !.steps =
                              <<Step("1", TargetApi("https://api/step/1", "POST", FALSE,
                                                    NoResilience),
                                     NoSpec, ObjectSpec(<<IdRule>>), "userInfo"),
                                Step("2", DynamicApi("https://api/step/2/:id", "POST",
                                                     <<"userInfo", "id">>, NoResilience),
                                     ObjectSpec(<<UidRule>>), NoSpec, "")>>] }

\* an invocation of execute begins while another one may be suspended
StartConcurrent ==
    /\ pc = "idle"
    /\ \E c \in ConcurrentConfigs : Begin(c)
    /\ UNCHANGED <<boundary, oauthCache, peer>>

\* variant: sharedContext is a field of the service, common to both invocations
Switch_SharedContext ==
    /\ pc \in {"login", "oauth", "invoke", "delay", "done"}
    /\ peer.pc # "done"
    /\ peer' = [cfg |-> cfg, pc |-> pc, stepIdx |-> stepIdx, sharedContext |-> sharedContext,
                call |-> call, attempts |-> attempts, targetResponse |-> targetResponse,
                finalResponse |-> finalResponse, stepResults |-> stepResults, net |-> net,
                stages |-> stages, err |-> err, failedAt |-> failedAt,
                outcome |-> outcome, auditLog |-> auditLog]
    /\ cfg' = peer.cfg
    /\ pc' = peer.pc
    /\ stepIdx' = peer.stepIdx
    /\ sharedContext' = sharedContext
    /\ call' = peer.call
    /\ attempts' = peer.attempts
    /\ targetResponse' = peer.targetResponse
    /\ finalResponse' = peer.finalResponse
    /\ stepResults' = peer.stepResults
    /\ net' = peer.net
    /\ stages' = peer.stages
    /\ err' = peer.err
    /\ failedAt' = peer.failedAt
    /\ outcome' = peer.outcome
    /\ auditLog' = peer.auditLog
    /\ UNCHANGED <<tokenCache, now, invocations, authLog, oauthCache, boundary>>

\* The running invocation is at an await (a login or token POST, the target
\* call, the retry delay) or has returned, and the event loop resumes the
\* other invocation, or lets it begin: each invocation keeps its own locals,
\* the static tokenCache, the clock and the logs are common to both.
Switch ==
    /\ pc \in {"login", "oauth", "invoke", "delay", "done"}
    /\ peer.pc # "done"
    /\ peer' = [cfg |-> cfg, pc |-> pc, stepIdx |-> stepIdx, sharedContext |-> sharedContext,
                call |-> call, attempts |-> attempts, targetResponse |-> targetResponse,
                finalResponse |-> finalResponse, stepResults |-> stepResults, net |-> net,
                stages |-> stages, err |-> err, failedAt |-> failedAt,
                outcome |-> outcome, auditLog |-> auditLog]
    /\ cfg' = peer.cfg
    /\ pc' = peer.pc
    /\ stepIdx' = peer.stepIdx
    /\ sharedContext' = peer.sharedContext
    /\ call' = peer.call
    /\ attempts' = peer.attempts
    /\ targetResponse' = peer.targetResponse
    /\ finalResponse' = peer.finalResponse
    /\ stepResults' = peer.stepResults
    /\ net' = peer.net
    /\ stages' = peer.stages
    /\ err' = peer.err
    /\ failedAt' = peer.failedAt
    /\ outcome' = peer.outcome
    /\ auditLog' = peer.auditLog
    /\ UNCHANGED <<tokenCache, now, invocations, authLog, oauthCache, boundary>>

NextConcurrent ==
    \/ StartConcurrent
    \/ Switch
    \/ ValidateRequest
    \/ ResolveParams
    \/ TransformRequest
    \/ Authenticate
    \/ LoginRespond
    \/ Invoke
    \/ TransformResponse
    \/ ValidateResponse
    \/ Catch

SpecConcurrent == Init /\ [][NextConcurrent]_vars

(***************************************************************************)
(* Properties                                                              *)
(***************************************************************************)
\* the transport calls that step k made to its target (k = 0: the single call)
CallsOfStep(k) == SelectSeq(net, LAMBDA c : c.kind = "target" /\ c.step = k)
\* the retry count configured for step k
RetryCountOf(k) ==
    LET api == IF k = 0 THEN cfg.targetApi ELSE cfg.steps[k].targetApi
    IN IF api.resilience.present THEN api.resilience.retryCount ELSE 0
StepsStarted == IF Len(cfg.steps) = 0 THEN {0} ELSE 1..stepIdx
Ended == pc \in {"catch", "done"}

\* C1: with retry count N a call is attempted at most N + 1 times; a success
\* at attempt k ends the call after exactly k attempts (only the last call of
\* a step can be a success); when all N + 1 attempts fail, the call fails
\* with the error of the last attempt, unchanged.
C1_RetryBudget ==
    \A k \in StepsStarted :
        LET calls == CallsOfStep(k)
            n == Len(calls)
        IN /\ n <= RetryCountOf(k) + 1
           /\ \A i \in 1..(n - 1) : ~calls[i].ok
           /\ (pc \in {"invoke", "delay"} /\ stepIdx = k) => n = attempts
           /\ (Ended /\ stepIdx = k /\ n > 0 /\ ~calls[n].ok) =>
                 /\ failedAt = "INVOKE"
                 /\ n = RetryCountOf(k) + 1
                 /\ err = calls[n].error
           /\ (Ended /\ stepIdx = k /\ failedAt = "INVOKE") =>
                 /\ n = RetryCountOf(k) + 1
                 /\ ~calls[n].ok
\* three failed attempts with retry count 2, then the last error is thrown
C1_Witness ==
    /\ pc = "catch"
    /\ failedAt = "INVOKE"
    /\ Len(cfg.steps) = 0
    /\ RetryCountOf(0) = 2
    /\ Len(CallsOfStep(0)) = 3
    /\ CallsOfStep(0)[1].error # CallsOfStep(0)[3].error
    /\ err = CallsOfStep(0)[3].error

\* the stage sequences of the pipeline
StageIndex(order, name) == CHOOSE i \in 1..Len(order) : order[i] = name
FollowsOrder(order, st) ==
    LET n == IF st # << >> /\ st[Len(st)] = "ERROR" THEN Len(st) - 1 ELSE Len(st)
    IN /\ \A i \in 1..n : \E j \in 1..Len(order) : order[j] = st[i]
       /\ n > 0 => st[1] = order[1]
       /\ \A i \in 1..(n - 1) :
            \/ StageIndex(order, st[i + 1]) = StageIndex(order, st[i]) + 1
            \/ st[i] = "INVOKE" /\ st[i + 1] = "INVOKE"
ClaimedOrder ==
    <<"RESOLVE_PARAMS", "VALIDATE_REQUEST", "TRANSFORM_REQUEST", "AUTHENTICATE", "INVOKE",
      "TRANSFORM_RESPONSE", "VALIDATE_RESPONSE", "DONE">>
ExecutedOrder ==
    <<"VALIDATE_REQUEST", "RESOLVE_PARAMS", "TRANSFORM_REQUEST", "AUTHENTICATE", "INVOKE",
      "TRANSFORM_RESPONSE", "VALIDATE_RESPONSE", "DONE">>

\* C2 as stated: an invocation of a mapping without steps passes its stages
\* in the order RESOLVE_PARAMS, VALIDATE_REQUEST, TRANSFORM_REQUEST,
\* AUTHENTICATE, INVOKE, TRANSFORM_RESPONSE, VALIDATE_RESPONSE, DONE.
C2_ClaimedStageOrder ==
    Len(cfg.steps) = 0 => FollowsOrder(ClaimedOrder, stages)

\* C2: an invocation of a mapping without steps validates the request first
\* and resolves the parameters second: VALIDATE_REQUEST, RESOLVE_PARAMS,
\* TRANSFORM_REQUEST, AUTHENTICATE, INVOKE (once per attempt),
\* TRANSFORM_RESPONSE, VALIDATE_RESPONSE, DONE. ERROR is entered directly from
\* the stage that failed, only as the last stage, and DONE and ERROR exclude
\* each other.
C2_StageOrder ==
    Len(cfg.steps) = 0 =>
        /\ FollowsOrder(ExecutedOrder, stages)
        /\ \A i \in 1..(Len(stages) - 1) : stages[i] \notin {"ERROR", "DONE"}
        /\ (stages # << >> /\ stages[Len(stages)] = "ERROR") =>
              /\ Len(stages) > 1
              /\ failedAt = stages[Len(stages) - 1]
              /\ outcome.kind # "returned"
        /\ pc = "done" => stages[Len(stages)] \in {"ERROR", "DONE"}
        /\ outcome.kind = "returned" <=> (stages # << >> /\ stages[Len(stages)] = "DONE")
\* a complete run with dynamic parameters that passes every stage once
C2_Witness ==
    /\ Len(cfg.steps) = 0
    /\ DOMAIN cfg.targetApi.pathParams # {}
    /\ stages = <<"VALIDATE_REQUEST", "RESOLVE_PARAMS", "TRANSFORM_REQUEST", "AUTHENTICATE",
                  "INVOKE", "TRANSFORM_RESPONSE", "VALIDATE_RESPONSE", "DONE">>
\* C3: a payload that fails requestSchema ends the invocation in the error
\* branch with the request-contract error before any network call (login or
\* target) and before any step; in a workflow the request is validated
\* once, before the first step, and never again.
C3_RequestContractBeforeNetwork ==
    LET rejected == cfg.requestSchema.present
                    /\ ~(IsObject(cfg.payload) /\ "id" \in Keys(cfg.payload))
    IN /\ (rejected /\ pc \notin {"idle", "validateReq"}) =>
             /\ Ended
             /\ err = RequestContractError
             /\ failedAt = "VALIDATE_REQUEST"
             /\ net = << >>
             /\ authLog = << >>
             /\ stepIdx = 0
             /\ stepResults = << >>
             /\ outcome.kind # "returned"
       /\ err = RequestContractError => rejected /\ net = << >>
       /\ stages # << >> => stages[1] = "VALIDATE_REQUEST"
       /\ \A i \in 2..Len(stages) : stages[i] # "VALIDATE_REQUEST"
\* a two-step workflow with a bearer login rejected before its first step
C3_Witness ==
    /\ pc = "done"
    /\ Len(cfg.steps) = 2
    /\ cfg.authConfig.authType = "BEARER_TOKEN"
    /\ err = RequestContractError
    /\ net = << >>
    /\ stages = <<"VALIDATE_REQUEST", "ERROR">>

\* C4: a result that fails responseSchema makes execute fail with the
\* response-contract error instead of returning it: nothing is returned that
\* the schema rejects, and the failure comes after the successful call with
\* no retry and no further transport call.
OkTargetCalls == SelectSeq(net, LAMBDA c : c.kind = "target" /\ c.ok)
C4_ResponseContract ==
    LET rejects(v) == cfg.responseSchema.present /\ ~(IsObject(v) /\ "id" \in Keys(v))
    IN /\ outcome.kind = "returned" => ~rejects(outcome.value)
       /\ (Ended /\ failedAt = "VALIDATE_RESPONSE") =>
             /\ err = ResponseContractError
             /\ rejects(finalResponse)
             /\ outcome.kind # "returned"
             /\ net # << >>
             /\ net[Len(net)].kind = "target" /\ net[Len(net)].ok
             /\ Len(OkTargetCalls) = IF Len(cfg.steps) = 0 THEN 1 ELSE Len(cfg.steps)
       /\ err = ResponseContractError => failedAt = "VALIDATE_RESPONSE"
       /\ (pc = "done" /\ rejects(finalResponse) /\ failedAt = "") => FALSE
\* a response without id rejected after one successful call under a retry budget
C4_Witness ==
    /\ pc = "done"
    /\ err = ResponseContractError
    /\ Len(cfg.steps) = 0
    /\ RetryCountOf(0) = 2
    /\ Len(net) = 1
    /\ net[1].ok
    /\ outcome.kind = "thrown"

\* the error source the catch block is meant to transform: the remote body
\* when there is a non-empty one, else a synthesized {message, status}
ClaimedErrorSource(e) ==
    IF e.hasResponse /\ e.data # Undef /\ e.data # EmptyObj THEN e.data
    ELSE Obj([message |-> Str(e.message),
              status |-> IF e.hasResponse THEN Num(e.status) ELSE Str("UNKNOWN")])
Rethrown(e) == [kind |-> "thrown", value |-> Undef, error |-> e]
Returned(v) == [kind |-> "mapped", value |-> v, error |-> NoError]

\* C5 as stated: when execute fails at or after authentication, with
\* errorMapping configured it returns transform(errorSource, errorMapping) as
\* a normal result, errorSource being the remote body if non-empty and else
\* the synthesized {message, status}; without errorMapping it rethrows the
\* same error.
C5_ErrorMappingApplied ==
    (pc = "done" /\ failedAt \in {"AUTHENTICATE", "INVOKE", "TRANSFORM_RESPONSE",
                                  "VALIDATE_RESPONSE"}) =>
        IF cfg.errorMapping # NoSpec
        THEN outcome = Returned(transform(ClaimedErrorSource(err), cfg.errorMapping))
        ELSE outcome = Rethrown(err)

\* C6 as stated: a request-schema failure is always thrown to the caller as
\* the request-contract error, even when errorMapping is configured.
C6_ClaimedAlwaysThrown ==
    (pc = "done" /\ failedAt = "VALIDATE_REQUEST") => outcome = Rethrown(RequestContractError)

\* C6: the catch block applies errorMapping to a request-schema failure as to
\* any other failure: with errorMapping configured the caller gets the
\* outcome of transform({message, status: 'UNKNOWN'}, errorMapping) as a
\* normal result; the request-contract error is thrown only without
\* errorMapping.
C6_RequestFailureMapped ==
    (pc = "done" /\ failedAt = "VALIDATE_REQUEST") =>
        LET source == Obj([message |-> Str(RequestContractError.message),
                           status |-> Str("UNKNOWN")])
        IN IF cfg.errorMapping = NoSpec THEN outcome = Rethrown(RequestContractError)
           ELSE IF transform(source, cfg.errorMapping) = Thrown
                THEN outcome.kind = "thrown" /\ outcome.error # RequestContractError
                ELSE outcome = Returned(transform(source, cfg.errorMapping))
\* a rejected request returned as {reason: <validation message>}
C6_Witness ==
    /\ pc = "done"
    /\ failedAt = "VALIDATE_REQUEST"
    /\ cfg.errorMapping # NoSpec
    /\ outcome = Returned(One("reason", Str(RequestContractError.message)))
    /\ net = << >>

\* the context of step k: the payload's top-level keys, then the results that
\* steps before k saved under saveResultToContextAs, the latest one per key
SavedBefore(k) == {cfg.steps[j].saveResultToContextAs : j \in 1..(k - 1)} \ {""}
LastSaver(k, key) ==
    CHOOSE j \in 1..(k - 1) :
        /\ cfg.steps[j].saveResultToContextAs = key
        /\ \A i \in (j + 1)..(k - 1) : cfg.steps[i].saveResultToContextAs # key
ExpectedContext(k) ==
    Obj([key \in Keys(cfg.payload) \cup SavedBefore(k) |->
            IF key \in SavedBefore(k) THEN stepResults[LastSaver(k, key)]
            ELSE Field(cfg.payload, key)])
\* what a one-rule mapping (or none) makes of a context
ExpectedBody(ctx, mapping) ==
    IF mapping = NoSpec THEN ctx
    ELSE LET v == getValue(ctx, mapping.mappings[1].source)
         IN IF v = Undef THEN EmptyObj ELSE One(mapping.mappings[1].target[1], v)
\* the dynamic parameter of a step's target, read from a context
ExpectedParam(ctx, api) ==
    IF DOMAIN api.pathParams = {} \/ getValue(ctx, api.pathParams["id"]) = Undef
    THEN EmptyObj
    ELSE One("q", getValue(ctx, api.pathParams["id"]))
\* the value substituted for the :id placeholder of a step's URL
ExpectedSubst(ctx, api) ==
    IF DOMAIN api.pathParams = {} \/ getValue(ctx, api.pathParams["id"]) = Undef
    THEN EmptyObj
    ELSE One("id", Str(NumStr(getValue(ctx, api.pathParams["id"]).n)))

\* C7: in a workflow, step k's request body and dynamic parameters are
\* computed from a context that holds the top-level keys of the original
\* payload and, for each earlier step that declares saveResultToContextAs,
\* that key bound to the step's transformed result, a later save replacing
\* an earlier one; a step-2 rule reading $.userInfo.id sends the id that
\* step 1 saved as userInfo.
C7_WorkflowContext ==
    (Len(cfg.steps) > 0 /\ stepIdx >= 1) =>
        /\ sharedContext = ExpectedContext(Len(stepResults) + 1)
        /\ \A i \in 1..Len(net) :
              net[i].kind = "target" =>
                 LET k == net[i].step
                 IN /\ net[i].req.body =
                          ExpectedBody(ExpectedContext(k), cfg.steps[k].requestMapping)
                    /\ net[i].req.queryParams =
                          ExpectedParam(ExpectedContext(k), cfg.steps[k].targetApi)
                    /\ net[i].req.url.subst =
                          ExpectedSubst(ExpectedContext(k), cfg.steps[k].targetApi)
\* step 1 saved {id: 7} over the payload's userInfo {id: 9}; step 2 sent uid 7
C7_Witness ==
    /\ Len(cfg.steps) = 2
    /\ Field(cfg.payload, "userInfo") = One("id", Num(9))
    /\ cfg.steps[1].saveResultToContextAs = "userInfo"
    /\ Len(stepResults) >= 1
    /\ stepResults[1] = One("id", Num(7))
    /\ \E i \in 1..Len(net) :
          /\ net[i].kind = "target"
          /\ net[i].step = 2
          /\ net[i].req.body = One("uid", Num(7))
          /\ net[i].req.queryParams = One("q", Num(7))
          /\ net[i].req.url = [template |-> "https://api/step/2/:id",
                               subst |-> One("id", Str("7"))]

\* the result of step j: its response mapping applied to its successful call
ExpectedResult(j) ==
    LET res == OkTargetCalls[j].res
        pm == cfg.steps[j].responseMapping
    IN IF pm = NoSpec THEN res ELSE ExpectedBody(res, pm)

\* C8: the steps of a workflow are called in declaration order, each step's
\* calls going to its own target, and a normal return of execute carries the
\* transformed result of the last declared step.
C8_WorkflowResult ==
    Len(cfg.steps) > 0 =>
        /\ \A i \in 1..Len(net) :
              /\ net[i].step \in 1..Len(cfg.steps)
              /\ net[i].kind = "target" =>
                    net[i].req.url.template = cfg.steps[net[i].step].targetApi.url
              /\ \A j \in 1..(i - 1) : net[j].step <= net[i].step
        /\ \A j \in 1..Len(OkTargetCalls) : OkTargetCalls[j].step = j
        /\ Len(stepResults) <= Len(OkTargetCalls)
        /\ \A j \in 1..Len(stepResults) : stepResults[j] = ExpectedResult(j)
        /\ outcome.kind = "returned" =>
              /\ Len(stepResults) = Len(cfg.steps)
              /\ outcome.value = ExpectedResult(Len(cfg.steps))
\* two steps with different results: the second one is returned
C8_Witness ==
    /\ pc = "done"
    /\ Len(cfg.steps) = 2
    /\ cfg.steps[2].responseMapping # NoSpec
    /\ outcome.kind = "returned"
    /\ stepResults[1] = One("name", Str("x"))
    /\ outcome.value = One("id", Num(7))

\* C9: when step k of a workflow fails, the calls made are those of steps
\* 1..k only: none for a later step, none after the failure (the last call
\* on record is the failing step's own or, when step k failed before calling,
\* the successful call of step k - 1), and the invocation ends in the error
\* branch without a normal return.
C9_FailingStepEndsWorkflow ==
    Len(cfg.steps) > 0 =>
        /\ \A i \in 1..Len(net) : \A j \in 1..(net[i].step - 1) :
              \E c \in 1..(i - 1) : net[c].kind = "target" /\ net[c].step = j /\ net[c].ok
        /\ (Ended /\ stepIdx >= 1 /\ failedAt \notin {"", "VALIDATE_RESPONSE"}) =>
              /\ \A i \in 1..Len(net) : net[i].step <= stepIdx
              /\ Len(stepResults) = stepIdx - 1
              /\ Len(OkTargetCalls) = stepIdx - 1
                    \/ (failedAt = "TRANSFORM_RESPONSE" /\ Len(OkTargetCalls) = stepIdx)
              /\ failedAt = "INVOKE" =>
                    /\ net[Len(net)] = [kind |-> "target", step |-> stepIdx, req |-> call,
                                        ok |-> FALSE, res |-> Undef, error |-> err]
                    /\ Len(CallsOfStep(stepIdx)) = RetryCountOf(stepIdx) + 1
              /\ failedAt = "AUTHENTICATE" =>
                    net[Len(net)].kind \in {"login", "oauth"} /\ net[Len(net)].step = stepIdx
              /\ failedAt \in {"RESOLVE_PARAMS", "TRANSFORM_REQUEST"} =>
                    (net = << >> \/ (net[Len(net)].ok /\ net[Len(net)].step = stepIdx - 1))
              /\ outcome.kind # "returned"
              /\ pc = "done" => stages[Len(stages)] = "ERROR"
\* step 1 of two steps fails after its retry; step 2 is never called
C9_Witness ==
    /\ pc = "done"
    /\ Len(cfg.steps) = 2
    /\ stepIdx = 1
    /\ failedAt = "INVOKE"
    /\ Len(net) = 2
    /\ \A i \in 1..2 : net[i].step = 1 /\ ~net[i].ok
    /\ stages[Len(stages)] = "ERROR"

\* the cache entry in force before event i of the log: the latest set for the key
SetsBefore(i, key) == {j \in 1..(i - 1) : authLog[j].kind = "set" /\ authLog[j].key = key}
LatestSet(i, key) == CHOOSE j \in SetsBefore(i, key) : \A x \in SetsBefore(i, key) : x <= j
LiveEntry(i, key) ==
    /\ SetsBefore(i, key) # {}
    /\ authLog[LatestSet(i, key)].expiresAt > authLog[i].at

\* C10: for BEARER_TOKEN with only tokenUrl, a login POST is issued exactly
\* when the key has no cache entry or its entry has expired, and otherwise
\* the cached token is injected; an entry expires at acquisition time +
\* reported lifetime (3600 s when expires_in is absent or 0) - 60 s, and no
\* cached token is injected at or after its expiresAt.
C10_BearerTokenCache ==
    /\ \A i \in 1..Len(authLog) :
          LET e == authLog[i]
          IN /\ e.kind = "login" <=> (e.kind \in {"login", "hit"} /\ ~LiveEntry(i, e.key))
             /\ e.kind = "hit" =>
                   /\ LiveEntry(i, e.key)
                   /\ e.at < e.expiresAt
                   /\ e.token = authLog[LatestSet(i, e.key)].token
                   /\ e.expiresAt = authLog[LatestSet(i, e.key)].expiresAt
             /\ e.kind = "set" =>
                   /\ i > 1 /\ authLog[i - 1].kind = "login"
                   /\ e.expiresAt = e.at + (IF e.reported = 0 THEN 3600 ELSE e.reported) * 1000
                                         - 60000
             /\ e.kind = "fail" => i > 1 /\ authLog[i - 1].kind = "login"
    /\ Len(SelectSeq(net, LAMBDA c : c.kind = "login"))
          = Cardinality({i \in 1..Len(authLog) :
                           authLog[i].kind = "login" /\ authLog[i].inv = invocations})
    /\ \A key \in DOMAIN tokenCache :
          /\ SetsBefore(Len(authLog) + 1, key) # {}
          /\ tokenCache[key].token = authLog[LatestSet(Len(authLog) + 1, key)].token
          /\ tokenCache[key].expiresAt = authLog[LatestSet(Len(authLog) + 1, key)].expiresAt
\* three invocations: a login, a hit inside the lifetime, a second login
\* at the instant the entry expires
C10_Witness ==
    /\ invocations = 3
    /\ pc = "done"
    /\ Len(authLog) = 5
    /\ [i \in 1..5 |-> authLog[i].kind] = <<"login", "set", "hit", "login", "set">>
    /\ authLog[2].reported = 0
    /\ authLog[2].expiresAt = authLog[2].at + 3540000
    /\ authLog[3].at < authLog[2].expiresAt
    /\ authLog[4].at = authLog[2].expiresAt

\* C11: an OAUTH2_CLIENT_CREDENTIALS token is cached per tokenUrl + clientId:
\* when an invocation has stored a token and the next invocation
\* authenticates with the same key before that token's expiresAt, the next
\* invocation issues no token POST and injects the stored token (one POST
\* for the two invocations).
C11_OAuthTokenReused ==
    \A i \in 1..Len(authLog) : \A j \in 1..Len(authLog) :
        ( /\ i < j
          /\ authLog[i].kind = "oauthset"
          /\ authLog[i].token # ""
          /\ authLog[j].kind \in {"oauth", "oauthhit"}
          /\ authLog[j].key = authLog[i].key
          /\ authLog[j].inv = authLog[i].inv + 1
          /\ authLog[j].at < authLog[i].expiresAt )
        => /\ authLog[j].kind = "oauthhit"
           /\ authLog[j].token = authLog[i].token

(***************************************************************************)
(* The boundary                                                            *)
(***************************************************************************)
\* the steps executeCorrection has taken so far
Taken(step) == \E i \in 1..Len(boundary.trace) : boundary.trace[i] = step
\* step a was taken, and before step b if b was taken at all
TakenBefore(a, b) ==
    \E i \in 1..Len(boundary.trace) :
        /\ boundary.trace[i] = a
        /\ \A j \in 1..i : boundary.trace[j] # b
\* nothing has been sent: no target call, no token or login call
NoNetwork == net = << >> /\ authLog = << >>
\* the engine has not been entered
EngineIdle == pc = "idle" /\ stages = << >> /\ invocations = 0

\* C12: when an effective auth config exists, the provider's validate runs
\* before the engine is called and without network access; when validate
\* fails the engine is never invoked, nothing is sent, and the caller gets
\* statusCode 400, errorType AUTH_VALIDATION_FAILED and the provider's message.
C12_ValidateBeforeEngine ==
    /\ (Taken("ENGINE") /\ boundary.effectiveAuth.present) =>
            /\ TakenBefore("VALIDATE", "ENGINE")
            /\ boundary.validation = ""
    /\ (Taken("VALIDATE") /\ ~Taken("ENGINE")) => NoNetwork /\ EngineIdle
    /\ (Taken("VALIDATE") /\ boundary.validation # "") =>
            /\ boundary.phase = "responded"
            /\ ~Taken("ENGINE")
            /\ boundary.validation =
                   validate(getProvider(boundary.effectiveAuth.authType),
                            boundary.effectiveAuth)
            /\ boundary.envelope =
                   [success |-> FALSE, statusCode |-> 400,
                    errorType |-> "AUTH_VALIDATION_FAILED",
                    message |-> "Authentication Validation Failed: "
                                   \o boundary.validation]
\* an OAuth2 config without clientSecret is rejected with the provider's
\* message before anything is sent
C12_Witness ==
    /\ boundary.phase = "responded"
    /\ boundary.effectiveAuth.authType = "OAUTH2_CLIENT_CREDENTIALS"
    /\ boundary.trace = <<"LOOKUP", "POLICY", "GET_PROVIDER", "VALIDATE">>
    /\ boundary.envelope.message =
          "Authentication Validation Failed: AuthType OAUTH2_CLIENT_CREDENTIALS requires \"clientSecret\" in config"
    /\ NoNetwork

\* the config validate was applied to, and what the claim calls present
Validated == boundary.effectiveAuth
Has(k) == ConfigKey(Validated.config, k) # ""
\* the first of the listed keys that is missing
FirstMissing(required) ==
    required[CHOOSE i \in 1..Len(required) :
                ~Has(required[i]) /\ \A j \in 1..(i - 1) : Has(required[j])]
Requires(type, what) == "AuthType " \o type \o " requires " \o what \o " in config"
Quoted(k) == "\"" \o k \o "\""

\* C13 as stated: validate succeeds exactly when the type's required keys are
\* present, BEARER_TOKEN requiring token, or tokenUrl together with
\* loginPayload.
C13_ClaimedRequiredKeys ==
    Taken("VALIDATE") =>
        LET type == ToUpperCase(Validated.authType)
        IN (boundary.validation = "") <=>
             CASE type = "BASIC" -> Has("username") /\ Has("password")
               [] type = "API_KEY" -> Has("keyName") /\ Has("keyValue")
               [] type = "BEARER_TOKEN" ->
                    Has("token") \/ (Has("tokenUrl") /\ Has("loginPayload"))
               [] type = "OAUTH2_CLIENT_CREDENTIALS" ->
                    Has("tokenUrl") /\ Has("clientId") /\ Has("clientSecret")
               [] type = "CUSTOM" -> Has("headers")
               [] type = "JWT" -> Has("issuer") /\ Has("audience") /\ Has("privateKeyRef")
               [] OTHER -> TRUE
\* C13: validate succeeds exactly when the type's required keys are present
\* and non-empty, BEARER_TOKEN requiring token or tokenUrl (alone); on
\* failure the message names what is required: for JWT and OAuth2 the first
\* missing key in the declared order, for BASIC and API_KEY both keys, for
\* BEARER_TOKEN token and tokenUrl, for CUSTOM headers.
C13_RequiredKeys ==
    Taken("VALIDATE") =>
        LET type == ToUpperCase(Validated.authType)
            jwt == <<"issuer", "audience", "privateKeyRef">>
            oauth == <<"tokenUrl", "clientId", "clientSecret">>
        IN boundary.validation =
             CASE type = "BASIC" /\ ~(Has("username") /\ Has("password")) ->
                    Requires(type, Quoted("username") \o " and " \o Quoted("password"))
               [] type = "API_KEY" /\ ~(Has("keyName") /\ Has("keyValue")) ->
                    Requires(type, Quoted("keyName") \o " and " \o Quoted("keyValue"))
               [] type = "BEARER_TOKEN" /\ ~(Has("token") \/ Has("tokenUrl")) ->
                    Requires(type, "either " \o Quoted("token") \o " or " \o Quoted("tokenUrl"))
               [] type = "OAUTH2_CLIENT_CREDENTIALS" /\ (\E i \in 1..3 : ~Has(oauth[i])) ->
                    Requires(type, Quoted(FirstMissing(oauth)))
               [] type = "CUSTOM" /\ ~Has("headers") ->
                    Requires(type, Quoted("headers") \o " object")
               [] type = "JWT" /\ (\E i \in 1..3 : ~Has(jwt[i])) ->
                    Requires(type, Quoted(FirstMissing(jwt)))
               [] OTHER -> ""
\* a BEARER_TOKEN config holding tokenUrl and nothing else passes validate
\* and the engine is called with it
C13_Witness ==
    /\ Taken("VALIDATE") /\ Taken("ENGINE")
    /\ Validated.authType = "BEARER_TOKEN"
    /\ DOMAIN Validated.config = {"tokenUrl"}
    /\ boundary.validation = ""

\* the engine is past the authentication of its current call (the step's
\* call, in a workflow), which did not fail
Authenticated ==
    /\ \E i \in 1..Len(stages) :
          /\ stages[i] = "AUTHENTICATE"
          /\ \A j \in (i + 1)..Len(stages) : stages[j] # "RESOLVE_PARAMS"
    /\ pc \notin {"auth", "login", "oauth"}
    /\ failedAt # "AUTHENTICATE"
\* token and login calls of the invocation
AuthCalls == SelectSeq(net, LAMBDA c : c.kind \in {"login", "oauth"})

\* C14: getProvider answers for every tag: a tag that is one of the seven
\* known ones when upper-cased gets that type's provider (seen in what its
\* inject writes), any other tag gets the no-auth provider, whose validate
\* succeeds and whose inject leaves the headers as they were and sends
\* nothing; the JWT inject changes nothing and sends nothing either.
C14_ProviderDispatch ==
    /\ (Taken("VALIDATE") /\ ToUpperCase(Validated.authType) \notin
            {"BASIC", "API_KEY", "BEARER_TOKEN", "OAUTH2_CLIENT_CREDENTIALS", "JWT",
             "CUSTOM"}) => boundary.validation = ""
    /\ (Taken("ENGINE") /\ cfg.authConfig.present /\ Authenticated) =>
          LET type == ToUpperCase(cfg.authConfig.authType)
              config == cfg.authConfig.config
          IN CASE type = "BASIC" ->
                    /\ call.headers = BasicHeaders(config)
                    /\ AuthCalls = << >>
               [] type = "API_KEY" ->
                    /\ call.headers = ApiKeyHeaders(config)
                    /\ AuthCalls = << >>
               [] type = "CUSTOM" ->
                    /\ call.headers = CustomHeaders(cfg.authConfig.headers)
                    /\ AuthCalls = << >>
               [] type = "BEARER_TOKEN" ->
                    /\ \E token \in {"t0", "token1", "T0", "T1", "T2", "T3"} :
                          call.headers = BearerHeaders(config, token)
                    /\ Len(AuthCalls) = IF ConfigKey(config, "token") # "" THEN 0 ELSE 1
               [] type = "OAUTH2_CLIENT_CREDENTIALS" ->
                    /\ \E token \in {"O1", "O2", "undefined"} :
                          call.headers = OAuthHeaders(token)
                    /\ Len(AuthCalls) = 1
               [] OTHER ->
                    /\ call.headers = cfg.context.headers
                    /\ AuthCalls = << >>
\* a stored type written "Bearer_Token" is served by the bearer provider
C14_Witness ==
    /\ boundary.phase = "responded"
    /\ cfg.authConfig.authType = "Bearer_Token"
    /\ call.headers = [h \in {"Authorization"} |-> "Bearer t0"]
    /\ boundary.envelope.success

\* the stored auth type, and the auth type the request states ("" when none)
StoredType ==
    IF boundary.stored.mappingConfig.authConfig.present
    THEN boundary.stored.mappingConfig.authConfig.authType ELSE ""
RequestType ==
    IF boundary.request.authType # "" THEN boundary.request.authType
    ELSE IF boundary.request.authConfig.present THEN boundary.request.authConfig.authType
    ELSE ""

C17_TypedEnvelope ==
    /\ (boundary.phase = "engine" /\ pc = "done") => ENABLED Respond
    /\ boundary.phase = "responded" =>
          LET e == boundary.envelope
          IN IF e.success
             THEN /\ DOMAIN e = {"success", "statusCode", "data"}
                  /\ e.statusCode = 200
                  /\ Taken("ENGINE") /\ outcome.kind \in {"returned", "mapped"}
                  /\ e.data = outcome.value
             ELSE /\ \/ DOMAIN e = {"success", "statusCode", "errorType", "message"}
                     \/ DOMAIN e = {"success", "statusCode", "errorType", "targetResponse"}
                  /\ e.statusCode \in 400..599
                  /\ CASE boundary.request.connectorKey = "" ->
                            e.errorType = "FRAMEWORK_ERROR" /\ e.statusCode = 400
                       [] boundary.trace = <<"LOOKUP">> -> e.errorType = "FRAMEWORK_ERROR"
                       [] boundary.trace = <<"LOOKUP", "POLICY">> ->
                            e.errorType = "AUTH_MISMATCH" /\ e.statusCode = 400
                       [] ~Taken("ENGINE") ->
                            e.errorType = "AUTH_VALIDATION_FAILED" /\ e.statusCode = 400
                       [] OTHER ->
                            /\ outcome.kind = "thrown"
                            /\ IF outcome.error.hasResponse
                               THEN /\ e.errorType = "TARGET_API_ERROR"
                                    /\ e.statusCode = outcome.error.status
                                    /\ e.targetResponse = outcome.error.data
                               ELSE /\ e.errorType = "INTERNAL_CORRECTOR_ERROR"
                                    /\ e.statusCode = 500
                                    /\ e.message = outcome.error.message
\* the target answers 404 with a body: both are handed back
C17_Witness ==
    /\ boundary.phase = "responded"
    /\ boundary.envelope =
          [success |-> FALSE, statusCode |-> 404, errorType |-> "TARGET_API_ERROR",
           targetResponse |-> One("error", Str("nf"))]

\* C18: a connectorKey without a mapping and a mapping without targetApi end
\* alike: both requests get the statusCode and errorType of the invalid
\* mapping (400, FRAMEWORK_ERROR), the engine is not called and nothing is
\* sent.
C18_SamePreconditionFailure ==
    (boundary.phase = "responded" /\ boundary.trace = <<"LOOKUP">>) =>
        /\ boundary.envelope.statusCode =
              ErrorEnvelope([message |-> "", hasResponse |-> FALSE, status |-> 400,
                             data |-> Undef, http |-> TRUE]).statusCode
        /\ boundary.envelope.errorType = "FRAMEWORK_ERROR"
        /\ EngineIdle /\ NoNetwork

(***************************************************************************)
(* API key injection                                                       *)
(***************************************************************************)
\* C15: the API_KEY provider adds the key to the prepared call: with
\* location HEADER (the default) as header keyName: keyValue, with location
\* QUERY as keyName=keyValue among the query parameters sent to the target.
C15_ApiKeyInjected ==
    (Taken("ENGINE") /\ ToUpperCase(cfg.authConfig.authType) = "API_KEY" /\ Authenticated) =>
        LET config == cfg.authConfig.config
        IN IF ConfigKey(config, "location") \in {"", "HEADER"}
           THEN /\ config.keyName \in DOMAIN call.headers
                /\ call.headers[config.keyName] = config.keyValue
           ELSE /\ Field(call.queryParams, config.keyName) = Str(config.keyValue)
                /\ \A i \in 1..Len(net) :
                      net[i].kind = "target" =>
                          Field(net[i].req.queryParams, config.keyName) = Str(config.keyValue)

(***************************************************************************)
(* Transformation                                                          *)
(***************************************************************************)
\* C19: transform with no spec or with a DIRECT spec returns the source
\* unchanged, so an invocation whose responseMapping is absent or
\* {type: DIRECT} returns the target's response as received.
C19_DirectPassthrough ==
    (outcome.kind = "returned" /\ cfg.steps = << >>
        /\ cfg.responseMapping \in {NoSpec, DirectSpec}) =>
        /\ transform(targetResponse, cfg.responseMapping) = targetResponse
        /\ outcome.value = targetResponse

\* C20: transform never throws: whatever the source and the spec, the
\* request and response transformations of an invocation return a value and
\* no invocation fails in a transformation stage.
C20_TransformNeverThrows ==
    /\ failedAt \notin {"TRANSFORM_REQUEST", "TRANSFORM_RESPONSE"}
    /\ pc # "idle" => transform(CurPayload, CurMapping.requestMapping) # Thrown
    /\ pc # "idle" => transform(targetResponse, CurMapping.responseMapping) # Thrown

\* the request transform of a single-call invocation has just run
RequestTransformed ==
    /\ cfg.steps = << >>
    /\ HasRules(cfg.requestMapping)
    /\ pc = "auth" \/ failedAt = "TRANSFORM_REQUEST"
\* what it returned
TransformedBody == IF failedAt = "TRANSFORM_REQUEST" THEN Thrown ELSE call.body
\* rule i is marked required and has no value after default substitution
RequiredUnset(source, mapItem) ==
    /\ mapItem.required
    /\ mapItem.default = Undef
    /\ JsonPathThrows(source) \/ getValue(source, mapItem.source) = Undef
\* the spec without its i-th rule
WithoutRule(mapping, i) ==
    [mapping EXCEPT !.mappings =
        SubSeq(mapping.mappings, 1, i - 1)
            \o SubSeq(mapping.mappings, i + 1, Len(mapping.mappings))]

\* C21: in an OBJECT transform a required rule whose value is still
\* undefined after default substitution is skipped without raising: the
\* result is the one the spec gives with that rule removed, so every other
\* rule, before and after it, writes its field as if the rule were absent.
C21_RequiredRuleSkipped ==
    (RequestTransformed /\ cfg.requestMapping.type = "OBJECT") =>
        \A i \in DOMAIN cfg.requestMapping.mappings :
            RequiredUnset(cfg.payload, cfg.requestMapping.mappings[i]) =>
                /\ TransformedBody = transform(cfg.payload, WithoutRule(cfg.requestMapping, i))
                /\ transform(cfg.payload, cfg.requestMapping)
                       = transform(cfg.payload, WithoutRule(cfg.requestMapping, i))
\* a required rule without a value stands between two rules that both wrote
C21_Witness ==
    /\ RequestTransformed /\ cfg.requestMapping.type = "OBJECT"
    /\ Len(cfg.requestMapping.mappings) = 3
    /\ RequiredUnset(cfg.payload, cfg.requestMapping.mappings[2])
    /\ TransformedBody = Obj([k \in {"id", "copy"} |-> Num(1)])

\* the request mapping is an ARRAY spec with a root
ArrayRequest ==
    /\ RequestTransformed
    /\ cfg.requestMapping.type = "ARRAY"
    /\ "root" \in DOMAIN cfg.requestMapping
RootValue == getValue(cfg.payload, cfg.requestMapping.root)
\* the sequence the claim describes: the OBJECT transform of each element
ElementTransforms ==
    [i \in DOMAIN RootValue.a |->
        transform(RootValue.a[i],
                  ObjectSpecWithDefaults(cfg.requestMapping.mappings,
                                         cfg.requestMapping.defaults))]

\* C22: for an ARRAY spec whose root resolves to an array of n elements the
\* result has exactly n elements, element i being the OBJECT transform of
\* source element i, in order; the sequence is returned under outputWrapper
\* when outputWrapper is set and bare otherwise.
C22_ArrayElementwise ==
    (ArrayRequest /\ RootValue.t = "arr") =>
        LET wrapper == cfg.requestMapping.outputWrapper
            list == IF wrapper # << >> THEN getValue(TransformedBody, wrapper)
                    ELSE TransformedBody
        IN /\ TransformedBody # Thrown
           /\ list.t = "arr"
           /\ Len(list.a) = Len(RootValue.a)
           /\ \A i \in DOMAIN list.a : list.a[i] # Thrown /\ list.a[i] = ElementTransforms[i]
           /\ wrapper # << >> => TransformedBody = setValue(EmptyObj, wrapper, list)

\* C23: for every ARRAY spec, when root resolves to anything that is not
\* an array (missing, null, an object or a scalar, or the source itself is
\* undefined), transform returns an empty sequence and does not throw.
C23_NonArrayRootEmpty ==
    (ArrayRequest /\ RootValue.t # "arr") =>
        /\ failedAt # "TRANSFORM_REQUEST"
        /\ pc = "auth"
        /\ call.body = Arr(<< >>)
        /\ transform(cfg.payload, cfg.requestMapping) = Arr(<< >>)
\* the root is an object and the spec names an outputWrapper
C23_Witness ==
    /\ ArrayRequest
    /\ RootValue = One("value", Num(1))
    /\ cfg.requestMapping.outputWrapper # << >>
    /\ call.body = Arr(<< >>)

\* the request mapping is a CUSTOM spec with a script
CustomRequest ==
    /\ RequestTransformed
    /\ cfg.requestMapping.type = "CUSTOM"
    /\ "logic" \in DOMAIN cfg.requestMapping
\* the script raises on this input: at compilation, by its throw statement,
\* or by reading a property of undefined or null
ScriptRaises(logic, value) ==
    \/ logic.kind \in {"syntax", "throw"}
    \/ logic.kind = "field" /\ value.t \in {"undef", "null"}
\* the message of what it raises ("" when the error carries none)
ScriptMessage(logic, value) ==
    IF logic.kind \in {"syntax", "throw"} THEN logic.message
    ELSE "Cannot read properties of " \o (IF value.t = "null" THEN "null" ELSE "undefined")
\* what the script returns when it does not raise
ScriptReturn(logic, value) ==
    CASE logic.kind = "value" -> value
      [] logic.kind = "field" -> Field(value, logic.key)
      [] OTHER -> Undef

BodyPrepared == cfg.steps = << >> /\ (pc = "auth" \/ failedAt = "TRANSFORM_REQUEST")
\* a request mapping that is absent or has neither rules, defaults nor script
EmptySpec(mapping) ==
    \/ mapping = NoSpec
    \/ /\ mapping.mappings = << >>
       /\ mapping.defaults = << >>
       /\ "logic" \notin DOMAIN mapping

\* C25: the body sent to the target is the payload itself when
\* requestMapping is absent or empty and transform(payload, requestMapping)
\* otherwise, for every spec type (fields named by no rule are stripped);
\* for POST, PUT and PATCH an undefined body becomes an empty object.
C25_RequestBody ==
    BodyPrepared =>
        LET expected == IF EmptySpec(cfg.requestMapping) THEN cfg.payload
                        ELSE transform(cfg.payload, cfg.requestMapping)
        IN TransformedBody =
              IF expected = Undef /\ call.method \in {"POST", "PUT", "PATCH"}
              THEN EmptyObj ELSE expected

\* the parameters of a single-call invocation have just been resolved
ParamsResolved == cfg.steps = << >> /\ (pc = "transformReq" \/ failedAt = "RESOLVE_PARAMS")

\* C26: the effective query parameters are the config defaults overlaid by
\* the call-time values (call-time wins per key); a '$.' path value is
\* replaced by what it resolves to in the payload and omitted when that is
\* undefined, a literal passes through; each resolvable path parameter is
\* substituted for its placeholder; an unresolved parameter never fails the
\* call.
C26_DynamicParameters ==
    ParamsResolved =>
        LET defaults == cfg.targetApi.queryParams
            given == cfg.context.queryParams
            raw(k) == IF k \in Keys(given) THEN Field(given, k) ELSE Field(defaults, k)
            pathParams == cfg.targetApi.pathParams
        IN /\ failedAt # "RESOLVE_PARAMS"
           /\ Keys(call.queryParams) \subseteq Keys(defaults) \cup Keys(given)
           /\ \A k \in Keys(defaults) \cup Keys(given) :
                 Field(call.queryParams, k) =
                    IF raw(k).t = "path" THEN getValue(cfg.payload, raw(k).p) ELSE raw(k)
           /\ \A ph \in DOMAIN pathParams :
                 Field(call.url.subst, ph) =
                    IF getValue(cfg.payload, pathParams[ph]) = Undef THEN Undef
                    ELSE Str(ToStr(getValue(cfg.payload, pathParams[ph])))

\* C27: for every request through the boundary the HTTP method of the
\* target call is the method stored in the mapping's targetApi, whatever the
\* request carries (a method sent by the client included).
C27_StoredMethodOnly ==
    /\ ~Taken("ENGINE") => NoNetwork
    /\ Taken("ENGINE") =>
        /\ cfg.context.method = boundary.stored.mappingConfig.targetApi.method
        /\ pc \notin {"validateReq", "resolve", "catch"} =>
               call.method \in {"", boundary.stored.mappingConfig.targetApi.method}
        /\ \A i \in 1..Len(net) :
               net[i].kind = "target" =>
                   net[i].req.method = boundary.stored.mappingConfig.targetApi.method
\* the client sent DELETE and the target was called with the stored POST
C27_Witness ==
    /\ boundary.phase = "responded"
    /\ boundary.request.method = "DELETE"
    /\ boundary.stored.mappingConfig.targetApi.method = "POST"
    /\ \E i \in 1..Len(net) : net[i].kind = "target" /\ net[i].req.method = "POST"

\* the invocation has ended and its pipeline (validation, calls,
\* transformations) did not fail
PipelineSucceeded == pc = "done" /\ failedAt \in {"", "AUDIT"}
PipelineFailed == pc = "done" /\ failedAt \notin {"", "AUDIT"}

\* C28: each execute invocation hands exactly one record to the audit sink
\* (status 200 on success; the remote status or 500 with the error detail on
\* failure), and a failure of the sink never changes the invocation's
\* result nor turns a successful call into a failed one.
C28_AuditOncePerInvocation ==
    /\ pc = "done" => Len(auditLog) = 1
    /\ PipelineSucceeded =>
          /\ auditLog[1] = AuditRecord(200, "")
          /\ outcome = [kind |-> "returned", value |-> finalResponse, error |-> NoError]
    /\ PipelineFailed =>
          /\ auditLog[1] = AuditRecord(AuditStatus(err), err.message)
          /\ outcome = CatchOutcome(err, cfg.errorMapping)

\* the credential fetches (login and token POSTs) that failed
FetchFailures == SelectSeq(authLog, LAMBDA e : e.kind \in {"fail", "oauthfail"})
CredentialFetchFailed ==
    failedAt = "AUTHENTICATE" /\ err \in {BearerTokenError, OAuth2TokenError}

\* C30 as stated: a credential-fetch failure is counted as a failed attempt
\* by the retry loop: with retryCount N > 0 it is followed by a further
\* attempt, and the invocation fails only when the budget is exhausted.
C30_ClaimedCountedAsAttempt ==
    (Ended /\ CredentialFetchFailed /\ RetryCountOf(stepIdx) > 0) =>
        Len(FetchFailures) = RetryCountOf(stepIdx) + 1

\* C30: a credential-fetch failure is retried neither by the auth provider
\* nor by the retry loop: the first failed fetch ends the invocation,
\* whatever the retry count, with no target call and no delay for that
\* call; a delay only ever follows a failed target call.
C30_CredentialFailureEndsInvocation ==
    /\ CredentialFetchFailed =>
          /\ Ended
          /\ Len(FetchFailures) = 1
          /\ authLog[Len(authLog)].kind \in {"fail", "oauthfail"}
          /\ authLog[Len(authLog) - 1].kind \in {"login", "oauth"}
          /\ CallsOfStep(stepIdx) = << >>
    /\ pc = "delay" =>
          /\ FetchFailures = << >>
          /\ net # << >>
          /\ net[Len(net)].kind = "target" /\ ~net[Len(net)].ok
\* retry count 2, the token POST failed once, and the invocation has ended
\* without a target call
C30_Witness ==
    /\ pc = "done"
    /\ CredentialFetchFailed
    /\ err = OAuth2TokenError
    /\ RetryCountOf(0) = 2
    /\ CallsOfStep(0) = << >>
    /\ Len(FetchFailures) = 1

\* C29: for OBJECT and ARRAY specs transform is a pure function of its
\* arguments: the request transformation of an invocation leaves the
\* source (the payload, or the shared context of a workflow step) and the
\* spec unchanged.
C29_TransformPure ==
    [][(pc = "transformReq" /\ CurMapping.requestMapping.type \in {"OBJECT", "ARRAY"}) =>
          /\ cfg'.payload = cfg.payload
          /\ sharedContext' = sharedContext
          /\ cfg'.requestMapping = cfg.requestMapping]_vars

\* the transport calls made with the headers the bearer provider wrote
BearerCalls ==
    IF cfg.authConfig.present /\ getProvider(cfg.authConfig.authType) = "BEARER_TOKEN"
    THEN SelectSeq(net, LAMBDA c : c.kind = "target")
    ELSE << >>
\* C36: the bearer credential of the outgoing Authorization header is chosen
\* by priority: an Authorization header that came in with the request is
\* sent on as it is and no login is made; without one, a configured static
\* token is sent and no login is made; without either, the token sent is one
\* that the login endpoint at tokenUrl returned.
C36_BearerPriority ==
    \A i \in 1..Len(BearerCalls) :
        LET sent == BearerCalls[i].req.headers
            config == cfg.authConfig.config
            logins == SelectSeq(net, LAMBDA c : c.kind = "login")
        IN /\ "Authorization" \in DOMAIN sent
           /\ IF "Authorization" \in DOMAIN cfg.context.headers
              THEN /\ sent["Authorization"] = cfg.context.headers["Authorization"]
                   /\ logins = << >>
              ELSE IF ConfigKey(config, "token") # ""
              THEN /\ sent["Authorization"] = "Bearer " \o config.token
                   /\ logins = << >>
              ELSE \E j \in 1..Len(authLog) :
                      /\ authLog[j].kind \in {"set", "hit"}
                      /\ sent["Authorization"] = "Bearer " \o authLog[j].token

\* the header names that the provider of the invocation writes
ProviderSets ==
    LET config == cfg.authConfig.config
        provider == IF cfg.authConfig.present THEN getProvider(cfg.authConfig.authType)
                    ELSE "NONE"
    IN CASE provider \in {"BASIC", "OAUTH2_CLIENT_CREDENTIALS"} -> {"Authorization"}
         [] provider = "BEARER_TOKEN" ->
               {IF ConfigKey(config, "headerName") # "" THEN config.headerName
                ELSE "Authorization"}
         [] provider = "API_KEY" ->
               IF ConfigKey(config, "location") \in {"", "HEADER"}
               THEN {IF ConfigKey(config, "keyName") # "" THEN config.keyName
                     ELSE "X-API-KEY"}
               ELSE {}
         [] provider = "CUSTOM" -> DOMAIN cfg.authConfig.headers
         [] OTHER -> {}
\* C34: inject changes only the request draft of the call: once the engine
\* runs, the stored mapping is still the registry's, the auth config is
\* still the one handed in and context.headers is still the caller's
\* headerData; and every transport call carries the caller's headers, each
\* with its value unless the provider sets that very name, next to the
\* headers the provider sets and no others.
C34_InjectFrame ==
    Taken("ENGINE") =>
        /\ boundary.stored = findByIdOrName(boundary.request.connectorKey).mapping
        /\ cfg.authConfig = boundary.effectiveAuth
        /\ cfg.context.headers = boundary.request.headerData
        /\ \A i \in 1..Len(net) :
              net[i].kind = "target" =>
                  LET sent == net[i].req.headers
                      given == boundary.request.headerData
                  IN /\ DOMAIN given \subseteq DOMAIN sent
                     /\ DOMAIN sent \subseteq DOMAIN given \cup ProviderSets
                     /\ \A h \in DOMAIN given \ ProviderSets : sent[h] = given[h]
\* a key provider added X-API-KEY next to the caller's two headers
C34_Witness ==
    /\ Taken("ENGINE")
    /\ ProviderSets = {"keyName1"}
    /\ \E i \in 1..Len(net) :
          /\ net[i].kind = "target"
          /\ DOMAIN net[i].req.headers = {"Authorization", "X-Trace", "keyName1"}
          /\ net[i].req.headers["Authorization"] = "Bearer incoming"
          /\ net[i].req.headers["X-Trace"] = "abc"

SingleRule ==
    /\ RequestTransformed
    /\ cfg.requestMapping.type = "OBJECT"
    /\ Len(cfg.requestMapping.mappings) = 1
    /\ cfg.requestMapping.defaults = << >>
\* what the rule is said to write (Undef: nothing is written)
ClaimedWrite(source, mapItem) ==
    LET conditional == "condition" \in DOMAIN mapItem
        c == mapItem.condition
        holds == IF c.equals THEN ToStr(getValue(source, c.path)) = c.literal
                 ELSE Truthy(getValue(source, c.path))
        atSource == getValue(source, mapItem.source)
        skipped == conditional /\ ~holds /\ "valueIfFalse" \notin DOMAIN mapItem
        chosen == IF ~conditional THEN atSource
                  ELSE IF holds
                  THEN IF "valueIfTrue" \in DOMAIN mapItem THEN mapItem.valueIfTrue
                       ELSE atSource
                  ELSE mapItem.valueIfFalse
    IN IF skipped THEN Undef
       ELSE IF chosen = Undef THEN mapItem.default
       ELSE chosen
\* C38: the value a rule writes is, with a condition that holds, valueIfTrue
\* if given and else the value at source; with a condition that does not
\* hold, valueIfFalse if given and else the rule is skipped (no default, no
\* write); with no condition, the value at source; default replaces the
\* value only when it is undefined (null, 0, false and '' are kept) and an
\* undefined value is not written. `path == literal` compares the string
\* form of the value at path with the literal, any other condition is the
\* truthiness of the value at that path.
C38_RuleValue ==
    SingleRule =>
        LET mapItem == cfg.requestMapping.mappings[1]
            value == ClaimedWrite(cfg.payload, mapItem)
        IN TransformedBody = IF value = Undef THEN EmptyObj
                             ELSE setValue(EmptyObj, mapItem.target, value)

C39_StepTargets ==
    cfg.steps # << >> =>
        LET calls == SelectSeq(net, LAMBDA c : c.kind = "target")
            injections == SelectSeq(stages, LAMBDA st : st = "AUTHENTICATE")
        IN /\ \A i \in 1..Len(calls) :
                 LET k == calls[i].step
                     api == cfg.steps[k].targetApi
                 IN /\ k \in 1..Len(cfg.steps)
                    /\ calls[i].req.url.template = api.url
                    /\ calls[i].req.url.template # cfg.targetApi.url
                    /\ calls[i].req.method = api.method
                    /\ Keys(calls[i].req.queryParams) \subseteq Keys(api.queryParams)
                    /\ Len(CallsOfStep(k)) <= 1 + (IF api.resilience.present
                                                   THEN api.resilience.retryCount ELSE 0)
                    /\ ProviderSets \subseteq DOMAIN calls[i].req.headers
                    /\ Len(injections) >= k
           /\ Len(injections) <= stepIdx
           /\ (outcome.kind = "returned" /\ \A i \in 1..Len(calls) : calls[i].ok) =>
                 Len(calls) = Len(cfg.steps)

\* the login payload an event's invocation is configured with
Credentials(event) == ConfigKey(event.config, "loginPayload")
\* C33: cache entries are kept apart by endpoint and client identity: tokens
\* acquired with different login payloads are stored under different keys,
\* and a token that an invocation takes from the cache was acquired with
\* that invocation's own login payload.
C33_CredentialScopedCache ==
    /\ \A i, j \in 1..Len(authLog) :
          (authLog[i].kind = "set" /\ authLog[j].kind = "set"
             /\ Credentials(authLog[i]) # Credentials(authLog[j])) =>
              authLog[i].key # authLog[j].key
    /\ \A i \in 1..Len(authLog) :
          authLog[i].kind = "hit" =>
              \E j \in 1..(i - 1) :
                  /\ authLog[j].kind = "set"
                  /\ authLog[j].key = authLog[i].key
                  /\ authLog[j].token = authLog[i].token
                  /\ \A k \in (j + 1)..(i - 1) :
                        ~(authLog[k].kind = "set" /\ authLog[k].key = authLog[i].key)
                  /\ Credentials(authLog[j]) = Credentials(authLog[i])

\* the tokens of successful logins for the key of config that headers carry
InjectedToken(config, headers) ==
    {authLog[i].token : i \in {j \in 1..Len(authLog) :
                                  /\ authLog[j].kind = "set"
                                  /\ authLog[j].key = CacheKey(config)
                                  /\ "Authorization" \in DOMAIN headers
                                  /\ headers["Authorization"]
                                         = "Bearer " \o authLog[j].token}}
\* C32: whatever the interleaving of two invocations that read and refresh
\* the token cache, every entry of the cache is the (token, expiresAt) pair
\* that one successful login response for its key wrote, namely the last
\* such response that arrived (last writer wins), and every invocation that
\* has injected a dynamic bearer token has injected one that a successful
\* login for its key returned.
C32_CacheEntriesWhole ==
    /\ \A key \in DOMAIN tokenCache :
          \E j \in 1..Len(authLog) :
              /\ authLog[j].kind = "set" /\ authLog[j].key = key
              /\ \A k \in (j + 1)..Len(authLog) :
                    ~(authLog[k].kind = "set" /\ authLog[k].key = key)
              /\ tokenCache[key] = [token |-> authLog[j].token,
                                    expiresAt |-> authLog[j].expiresAt]
    /\ \A l \in {[c |-> cfg, call |-> call, pc |-> pc],
                 [c |-> peer.cfg, call |-> peer.call, pc |-> peer.pc]} :
          (l.c.authConfig.present /\ l.pc \in {"invoke", "transformResp", "validateResp"}) =>
              InjectedToken(l.c.authConfig.config, l.call.headers) # {}
\* two logins for one key were outstanding together; the response that came
\* last is the entry, and the other invocation sends the token of its own
C32_Witness ==
    /\ Len(authLog) = 4
    /\ authLog[1].kind = "login" /\ authLog[2].kind = "login"
    /\ authLog[3].kind = "set" /\ authLog[4].kind = "set"
    /\ authLog[3].key = authLog[4].key
    /\ authLog[3].token # authLog[4].token
    /\ tokenCache[authLog[4].key].token = authLog[4].token
    /\ pc = "invoke" /\ peer.pc = "invoke"
    /\ {call.headers["Authorization"], peer.call.headers["Authorization"]}
           = {"Bearer " \o authLog[3].token, "Bearer " \o authLog[4].token}

\* C35: two invocations that run side by side share nothing but the token
\* cache: under every interleaving the mapping, payload and context of an
\* invocation stay the ones it was called with, each of its transport
\* calls has the method, url, query parameters, body and non-credential
\* headers that follow from them and from its own earlier step results, its
\* workflow context is its payload's top-level keys overlaid with its own
\* saved results, and the payload of a workflow keeps its top-level keys
\* when step results are published.
C35_InvocationsIsolated ==
    /\ peer.pc # "idle" => peer.cfg \in ConcurrentConfigs
    /\ pc # "idle" =>
          /\ cfg \in ConcurrentConfigs
          /\ cfg.steps # << >> => cfg.payload = PayloadUser
          /\ (cfg.steps # << >> /\ stepIdx >= 1) =>
                sharedContext = ExpectedContext(Len(stepResults) + 1)
          /\ \A i \in 1..Len(net) :
                net[i].kind = "target" =>
                    LET k == net[i].step
                        req == net[i].req
                        m == IF k = 0 THEN cfg
                             ELSE [cfg EXCEPT !.targetApi = cfg.steps[k].targetApi]
                        ctx == IF k = 0 THEN cfg.payload ELSE ExpectedContext(k)
                        rm == IF k = 0 THEN cfg.requestMapping
                              ELSE cfg.steps[k].requestMapping
                    IN /\ (k = 0) = (cfg.steps = << >>)
                       /\ req.method = m.targetApi.method
                       /\ req.url = EffectiveUrl(m, ctx)
                       /\ req.queryParams = EffectiveQueryParams(m, ctx)
                       /\ req.body = ExpectedBody(ctx, rm)
                       /\ DOMAIN req.headers \ {"Authorization"} = DOMAIN cfg.context.headers
                       /\ \A h \in DOMAIN cfg.context.headers :
                             req.headers[h] = cfg.context.headers[h]
\* a workflow is at its second step with its first result saved over the
\* payload's userInfo, while an invocation with a context of its own is
\* suspended between its login and its transport call
C35_Witness ==
    /\ pc = "invoke" /\ stepIdx = 2
    /\ Field(sharedContext, "userInfo") = One("id", Num(7))
    /\ Field(cfg.payload, "userInfo") = One("id", Num(9))
    /\ call.body = One("uid", Num(7))
    /\ peer.pc = "invoke"
    /\ peer.cfg.context.present
    /\ peer.call.queryParams = Obj([k \in {"q", "page"} |->
                                       IF k = "q" THEN Num(2) ELSE Str("2")])
    /\ peer.call.headers = [h \in {"Authorization", "X-Trace"} |->
                               IF h = "X-Trace" THEN "abc" ELSE "Bearer T1"]

\* C31: within one invocation remote calls are made one at a time. While a
\* login or token request is outstanding it is the last call issued, every
\* earlier token request has been answered, and no validation,
\* transformation, parameter resolution, injection or transport call can
\* take place; a transport call is issued and answered in one step of the
\* retry loop. Workflow steps do not overlap: calls appear in step order,
\* none belongs to a later step than the running one, and while step k runs
\* the transformed results of all steps before k are there.
C31_OneCallAtATime ==
    LET outstanding == pc \in {"login", "oauth"}
        requests == SelectSeq(net, LAMBDA c : c.kind \in {"login", "oauth"})
        answers == SelectSeq(authLog, LAMBDA e : e.kind \in {"set", "fail", "oauthset",
                                                            "oauthfail"})
    IN /\ Len(requests) = Len(answers) + (IF outstanding THEN 1 ELSE 0)
       /\ outstanding =>
             /\ net[Len(net)].kind = pc
             /\ ~ENABLED ValidateRequest
             /\ ~ENABLED ResolveParams
             /\ ~ENABLED TransformRequest
             /\ ~ENABLED Authenticate
             /\ ~ENABLED Invoke
             /\ ~ENABLED TransformResponse
             /\ ~ENABLED ValidateResponse
       /\ \A i, j \in 1..Len(net) : i < j => net[i].step <= net[j].step
       /\ \A i \in 1..Len(net) : net[i].step <= stepIdx
       /\ (cfg.steps # << >> /\ stepIdx >= 1) => Len(stepResults) >= stepIdx - 1
\* the login of the second step is outstanding after the first step's
\* response has been transformed and saved
C31_Witness ==
    /\ pc = "login"
    /\ stepIdx = 2
    /\ Len(stepResults) = 1
    /\ \E i \in 1..Len(net) : net[i].kind = "target" /\ net[i].step = 1 /\ net[i].ok
    /\ net[Len(net)].kind = "login" /\ net[Len(net)].step = 2

====
